---- MODULE Spec2Model ----
(***************************************************************************)
(* Model of the advanced order execution engine of BinanceTradeBot:        *)
(* the TWAP handler (src/src/advanced/twap.py) and the Grid handler        *)
(* (src/src/advanced/grid_orders.py), together with the validator rules    *)
(* (src/src/validation.py) and the exchange gateway they call.             *)
(*                                                                         *)
(* Threads are interleaved at their blocking points: a gateway call in     *)
(* flight and a time.sleep().  One step of a thread takes the response of  *)
(* the call it was blocked in, runs the code that follows and stops at the *)
(* next gateway call or sleep, whose arguments are read when it is issued. *)
(* Quantities are Python floats: IEEE-754 binary64 values, kept as a sign, *)
(* a 53-bit significand and the exponent of its last bit, and rounded to   *)
(* nearest-even after every operation.                                     *)
(***************************************************************************)
EXTENDS Integers, Sequences, FiniteSets, TLC

(***************************************************************************)
(* Bounds of the model.                                                    *)
(***************************************************************************)
MaxTwaps == 1
MaxIntervals == 2
QtyIntervals == 6
MaxLevels == 3
MaxFills == 1
MaxStartLevels == 4
MaxConditions == 2
MaxStarts == 2
MaxExecuted == 1

\* total_quantity, duration_minutes and order_type given to start_twap
Totals == {0, 1}
Durations == {2}
OrderTypes == {"MARKET", "LIMIT"}
\* total_quantity of the single TWAP whose quantities are followed
QtyTotals == {1, 7}
\* arguments given to start_grid (take_profit_percentage 0 stands for None)
\* and to stop_grid, and the prices get_ticker answers with
GridLowers == {1}
GridUppers == {3}
GridTotals == {3}
GridTypes == {"NEUTRAL", "LONG", "SHORT"}
TakeProfits == {0, 30}
StopReasons == {"MANUAL", "USER"}
TickerPrices == {2}
\* the inputs of the specification that follows start_grid alone
StartLowers == {1, 2}
StartUppers == {2, 3, 7}
StartTickerPrices == {1, 2, 3}

(***************************************************************************)
(* Python float arithmetic.                                                *)
(***************************************************************************)
Precision == 53
LimbBits == 15
GuardBits == 12
\* the weight of the last bit of the smallest positive float is 2^MinExponent
MinExponent == -1074
Base == 2 ^ LimbBits

\* Naturals of any size: sequences of limbs in base 2^LimbBits, least
\* significant limb first, without leading zero limbs; <<>> is 0.
RECURSIVE Norm(_)
Norm(a) == IF a = <<>> THEN <<>>
           ELSE IF a[Len(a)] # 0 THEN a ELSE Norm(SubSeq(a, 1, Len(a) - 1))

Limb(a, i) == IF i <= Len(a) THEN a[i] ELSE 0

NatLimbs(n) == Norm(<<n % Base, n \div Base>>)

RECURSIVE AddLimbs(_, _, _, _, _)
AddLimbs(a, b, i, carry, acc) ==
    IF i > Len(a) /\ i > Len(b)
    THEN (IF carry > 0 THEN Append(acc, carry) ELSE acc)
    ELSE LET t == Limb(a, i) + Limb(b, i) + carry
         IN AddLimbs(a, b, i + 1, t \div Base, Append(acc, t % Base))

BAdd(a, b) == AddLimbs(a, b, 1, 0, <<>>)

RECURSIVE SubLimbs(_, _, _, _, _)
SubLimbs(a, b, i, borrow, acc) ==
    IF i > Len(a) THEN acc
    ELSE LET d == a[i] - Limb(b, i) - borrow
         IN SubLimbs(a, b, i + 1, IF d < 0 THEN 1 ELSE 0,
                     Append(acc, IF d < 0 THEN d + Base ELSE d))

\* a - b for a >= b
BSub(a, b) == Norm(SubLimbs(a, b, 1, 0, <<>>))

BLess(a, b) ==
    IF Len(a) # Len(b) THEN Len(a) < Len(b)
    ELSE \E i \in 1..Len(a) :
            /\ a[i] < b[i]
            /\ \A j \in (i + 1)..Len(a) : a[j] = b[j]

RECURSIVE MulLimbs(_, _, _, _, _)
MulLimbs(a, k, i, carry, acc) ==
    IF i > Len(a)
    THEN (IF carry > 0 THEN Append(acc, carry) ELSE acc)
    ELSE LET t == a[i] * k + carry
         IN MulLimbs(a, k, i + 1, t \div Base, Append(acc, t % Base))

\* a * k for 0 <= k < 2^15
BMulSmall(a, k) == Norm(MulLimbs(a, k, 1, 0, <<>>))

RECURSIVE DivLimbs(_, _, _, _, _)
DivLimbs(a, n, i, r, acc) ==
    IF i = 0 THEN [q |-> Norm(acc), r |-> r]
    ELSE LET t == r * Base + a[i]
         IN DivLimbs(a, n, i - 1, t % n, <<t \div n>> \o acc)

\* quotient and remainder of a by n, 0 < n < 2^15
BDivSmall(a, n) == DivLimbs(a, n, Len(a), 0, <<>>)

RECURSIVE MulRows(_, _, _)
MulRows(a, b, j) ==
    IF j > Len(b) THEN <<>>
    ELSE BAdd([i \in 1..(j - 1) |-> 0] \o BMulSmall(a, b[j]), MulRows(a, b, j + 1))

\* a * b
BMul(a, b) == Norm(MulRows(a, b, 1))

\* The digit of a long division: the largest d with d * b <= t, where
\* t < b * Base and the top limb of b is at least Base / 2.  The estimate
\* from the top limbs is at most 2 too large.
QuotDigit(t, b) ==
    LET n == Len(b)
        est == (Limb(t, n + 1) * Base + Limb(t, n)) \div b[n]
        qhat == IF est > Base - 1 THEN Base - 1 ELSE est
    IN IF ~BLess(t, BMulSmall(b, qhat)) THEN qhat
       ELSE IF ~BLess(t, BMulSmall(b, qhat - 1)) THEN qhat - 1
       ELSE qhat - 2

RECURSIVE DivRows(_, _, _, _, _)
DivRows(a, b, i, r, acc) ==
    IF i = 0 THEN [q |-> Norm(acc), r |-> r]
    ELSE LET t == Norm(<<a[i]>> \o r)
             d == QuotDigit(t, b)
         IN IF BLess(t, b)
            THEN DivRows(a, b, i - 1, t, <<0>> \o acc)
            ELSE DivRows(a, b, i - 1, BSub(t, BMulSmall(b, d)), <<d>> \o acc)

ShiftLeft(a, d) ==
    IF a = <<>> THEN <<>>
    ELSE LET r == d % LimbBits
             h == r \div 2
         IN [i \in 1..(d \div LimbBits) |-> 0]
                \o BMulSmall(BMulSmall(a, 2 ^ h), 2 ^ (r - h))

ShiftRight(a, d) ==
    LET w == d \div LimbBits
        r == d % LimbBits
        n == Len(a) - w
    IN IF n <= 0 THEN <<>>
       ELSE Norm([i \in 1..n |->
                    (a[i + w] \div (2 ^ r))
                    + (Limb(a, i + w + 1) % (2 ^ r)) * (2 ^ (LimbBits - r))])

BitLen(a) ==
    IF a = <<>> THEN 0
    ELSE (Len(a) - 1) * LimbBits
         + (CHOOSE k \in 1..LimbBits : 2 ^ (k - 1) <= a[Len(a)] /\ a[Len(a)] < 2 ^ k)

\* quotient and remainder of a by b, b # 0: long division of a and b scaled
\* so that the top limb of b is full
BDiv(a, b) ==
    LET sh == Len(b) * LimbBits - BitLen(b)
        an == ShiftLeft(a, sh)
        bn == ShiftLeft(b, sh)
        k == Len(bn) - 1
    IN IF Len(an) <= k THEN [q |-> <<>>, r |-> a]
       ELSE LET d == DivRows(an, bn, Len(an) - k,
                             Norm(SubSeq(an, Len(an) - k + 1, Len(an))), <<>>)
            IN [q |-> d.q, r |-> ShiftRight(d.r, sh)]

\* bit i of a, bit 0 the least significant
Bit(a, i) == (Limb(a, i \div LimbBits + 1) \div (2 ^ (i % LimbBits))) % 2

\* some bit below bit d of a is set
LowBits(a, d) ==
    \E i \in 1..Len(a) :
        \/ i <= d \div LimbBits /\ a[i] # 0
        \/ i = d \div LimbBits + 1 /\ a[i] % (2 ^ (d % LimbBits)) # 0

FZero == [s |-> 0, m |-> <<>>, e |-> 0]

\* The float nearest to (-1)^sign * a * 2^e, ties to even; sticky tells that
\* the exact value has further non-zero bits below those of a.  The last
\* bit kept is the one of weight 2^MinExponent when the value lies below the
\* normal range (gradual underflow, down to zero).
Round(sign, a, e, sticky) ==
    LET n == BitLen(a)
        sh == IF n - Precision > MinExponent - e THEN n - Precision
                                                 ELSE MinExponent - e
    IN IF n = 0 THEN FZero
       ELSE IF sh <= 0
       THEN [s |-> sign, m |-> ShiftLeft(a, Precision - n), e |-> e - (Precision - n)]
       ELSE LET keep == ShiftRight(a, sh)
                st == sticky \/ LowBits(a, sh - 1)
                up == Bit(a, sh - 1) = 1 /\ (st \/ Limb(keep, 1) % 2 = 1)
                r == IF up THEN BAdd(keep, <<1>>) ELSE keep
                k == BitLen(r)
            IN IF k = 0 THEN FZero
               ELSE IF k > Precision
               THEN [s |-> sign, m |-> ShiftRight(r, 1), e |-> e + sh + 1]
               ELSE [s |-> sign, m |-> ShiftLeft(r, Precision - k),
                     e |-> e + sh - (Precision - k)]

\* float(n) for an int n >= 0
FromInt(n) == Round(0, NatLimbs(n), 0, FALSE)

\* |x| < |y|
MagLess(x, y) ==
    IF y.m = <<>> THEN FALSE
    ELSE IF x.m = <<>> THEN TRUE
    ELSE IF x.e # y.e THEN x.e < y.e ELSE BLess(x.m, y.m)

\* x < y
FLess(x, y) ==
    IF x.s = 0 /\ y.s = 0 THEN MagLess(x, y)
    ELSE IF x.s = 1 /\ y.s = 1 THEN MagLess(y, x)
    ELSE x.s = 1

\* x <= y
FLeq(x, y) == ~FLess(y, x)

FNeg(x) == IF x.m = <<>> THEN x ELSE [x EXCEPT !.s = 1 - x.s]

\* x + y
FAdd(x, y) ==
    IF x.m = <<>> THEN y
    ELSE IF y.m = <<>> THEN x
    ELSE LET lo == IF x.e < y.e THEN x.e ELSE y.e
             xb == ShiftLeft(x.m, x.e - lo)
             yb == ShiftLeft(y.m, y.e - lo)
         IN IF x.s = y.s THEN Round(x.s, BAdd(xb, yb), lo, FALSE)
            ELSE IF MagLess(x, y) THEN Round(y.s, BSub(yb, xb), lo, FALSE)
            ELSE Round(x.s, BSub(xb, yb), lo, FALSE)

\* x - y
FSub(x, y) == FAdd(x, FNeg(y))

\* x / n for an int n, 0 < n < 2^10
FDivSmall(x, n) ==
    IF x.m = <<>> THEN FZero
    ELSE LET d == BDivSmall(ShiftLeft(x.m, GuardBits), n)
         IN Round(x.s, d.q, x.e - GuardBits, d.r # 0)

\* k * x for an int k, 0 <= k < 2^12
FMulSmall(k, x) == Round(x.s, BMulSmall(x.m, k), x.e, FALSE)

\* x * y
FMul(x, y) ==
    IF x.m = <<>> \/ y.m = <<>> THEN FZero
    ELSE Round(IF x.s = y.s THEN 0 ELSE 1, BMul(x.m, y.m), x.e + y.e, FALSE)

\* x / y for y # 0
FDiv(x, y) ==
    IF x.m = <<>> THEN FZero
    ELSE LET d == BDiv(ShiftLeft(x.m, Precision + GuardBits), y.m)
             e == x.e - y.e - Precision - GuardBits
         IN IF x.s = y.s THEN Round(0, d.q, e, d.r # <<>>)
            ELSE Round(1, d.q, e, d.r # <<>>)

(***************************************************************************)
(* State.                                                                  *)
(***************************************************************************)
VARIABLES
    exOrders,       \* the exchange: order id -> state of the order
    twap_counter,   \* TWAPOrderHandler.twap_counter
    active_twaps,   \* TWAPOrderHandler.active_twaps: twap id -> twap_config
    twapTask,       \* the _execute_twap thread of each twap id
    grid_counter,   \* GridOrderHandler.grid_counter
    gridObj,        \* the grid_config dictionaries ever created: grid id -> grid_config
    active_grids,   \* GridOrderHandler.active_grids: the grid ids registered
    monitoring_threads, \* GridOrderHandler.monitoring_threads: the grid ids with an entry
    gridStart,      \* the start_grid call of each grid id
    gridMon,        \* the _monitor_grid thread of each grid id
    gridStop,       \* the stop_grid call made from outside on each grid id
    cancel_calls,   \* the order ids cancel_order has been called with
    lastOp,         \* the last step of the TWAP handler, or refused stop_grid call
    ocoPlace,       \* the OCOOrderHandler.place_order call
    ocoCancel,      \* the OCOOrderHandler.cancel_oco_order call
    validatorCall,  \* the last call of a Validator method, with its result
    bracketCall,    \* the StopLimitOrderHandler.create_bracket_stop_orders call
    monitoring_orders, \* StopLimitOrderHandler.monitoring_orders: monitor id -> monitor
    is_monitoring,  \* StopLimitOrderHandler.is_monitoring
    priceLoop,      \* the _price_monitor_loop thread
    executed        \* how often _execute_manual_stop was called on each condition

twapVars == <<twap_counter, active_twaps, twapTask>>

gridVars == <<grid_counter, gridObj, active_grids, monitoring_threads,
              gridStart, gridMon, gridStop, cancel_calls>>

ocoVars == <<ocoPlace, ocoCancel>>

stopLimitVars == <<bracketCall, monitoring_orders, is_monitoring, priceLoop, executed>>

\* what a step of the TWAP handler, and of the Grid handler, cannot write
otherThanTwap == <<gridVars, ocoVars, validatorCall, stopLimitVars>>

otherThanGrid == <<twapVars, ocoVars, validatorCall, stopLimitVars>>

vars == <<exOrders, twapVars, gridVars, lastOp, ocoVars, validatorCall, stopLimitVars>>

TerminalStatus == {"STOPPED", "COMPLETED", "FAILED"}

\* lastOp: the operation of the last step of the TWAP handler or of the last
\* stop_grid call that found no grid under its id, the instance
\* it was given, the status of that instance before the step, the value
\* returned (when the step returns) and the gateway calls the step issued
NoOp == [op |-> "init", id |-> 0, was |-> "none", ret |-> "none", calls |-> <<>>]

\* an id generation that leaves the counter as it is
CounterKept(counter) ==
    counter

\* twap.py line 48, grid_orders.py line 47: the counter after `+= 1`, which
\* the instance id is formatted from together with the second of the call;
\* the model's ids are the counter values
NextCounter(counter) ==
    counter + 1

Op(name, id, was, ret, calls) ==
    [op |-> name, id |-> id, was |-> was, ret |-> ret, calls |-> calls]

\* The orderId the exchange gives to the next order of a strategy instance:
\* an opaque token, here the instance and the number of its accepted orders.
NextOrderId(owner) ==
    <<owner, Cardinality({o \in DOMAIN exOrders : o[1] = owner}) + 1>>

\* the exchange accepts an order: it is registered under a fresh order id
ExchangePlace(owner, state) ==
    exOrders' = [o \in DOMAIN exOrders \cup {NextOrderId(owner)} |->
                    IF o = NextOrderId(owner) THEN state ELSE exOrders[o]]

Init ==
    /\ exOrders = << >>
    /\ twap_counter = 0
    /\ active_twaps = << >>
    /\ twapTask = << >>
    /\ grid_counter = 0
    /\ gridObj = << >>
    /\ active_grids = {}
    /\ monitoring_threads = {}
    /\ gridStart = << >>
    /\ gridMon = << >>
    /\ gridStop = << >>
    /\ cancel_calls = {}
    /\ lastOp = NoOp
    /\ ocoPlace = [pc |-> "idle", side |-> "none", quantity |-> 0, price |-> 0,
                   stop_price |-> 0, limit_response |-> <<>>,
                   stop_response |-> <<>>, requests |-> <<>>,
                   ret |-> [null |-> TRUE]]
    /\ ocoCancel = [pc |-> "idle", order_list_id |-> "none", requests |-> <<>>,
                    group |-> [null |-> TRUE], ret |-> "none"]
    /\ validatorCall = [op |-> "none", args |-> <<>>, ret |-> FALSE]
    /\ bracketCall = [pc |-> "idle", position_side |-> "none",
                      entry_order |-> [null |-> TRUE, status |-> "none",
                                       avgPrice |-> 0, executedQty |-> 0],
                      requests |-> <<>>,
                      orders |-> <<>>, ret |-> <<>>]
    /\ monitoring_orders = << >>
    /\ is_monitoring = FALSE
    /\ priceLoop = [pc |-> "none", items |-> <<>>, pos |-> 0, idx |-> 0,
                    current_price |-> 0, old |-> <<>>]
    /\ executed = << >>

(***************************************************************************)
(* Validator (src/src/validation.py).                                      *)
(***************************************************************************)
\* a validation that lets more intervals than minutes through
validate_twap_parameters_any_intervals(total_quantity, duration_minutes, intervals) ==
    /\ ~FLeq(total_quantity, FZero)
    /\ ~(duration_minutes < 1)
    /\ ~(intervals < 2)
    /\ ~FLeq(FDivSmall(total_quantity, intervals), FZero)

\* lines 300-343
validate_twap_parameters(total_quantity, duration_minutes, intervals) ==
    /\ ~FLeq(total_quantity, FZero)
    /\ ~(duration_minutes < 1)
    /\ ~(intervals < 2)
    /\ ~(intervals > duration_minutes)
    /\ ~FLeq(FDivSmall(total_quantity, intervals), FZero)

\* A Python str, as far as upper() and strip() can tell strings apart: its
\* text in capitals without surrounding blanks, whether it has small
\* letters, and whether it has surrounding blanks.
Str(text) == [text |-> text, small |-> FALSE, blanks |-> FALSE]

Upper(str) == [str EXCEPT !.small = FALSE]

Strip(str) == [str EXCEPT !.blanks = FALSE]

\* Validator.valid_symbols['BTCUSDT']['max_qty']
max_qty == 1000

\* lines 28-48, for a symbol written in capitals without blanks
validate_symbol(symbol) == symbol \in {"BTCUSDT", "ETHUSDT", "ADAUSDT", "SOLUSDT", "DOTUSDT"}

\* lines 50-84, for a whole quantity of BTCUSDT (min_qty is 0.001)
validate_quantity(symbol, quantity) ==
    /\ validate_symbol(symbol)
    /\ ~(quantity <= 0)
    /\ ~(quantity > max_qty)

\* lines 86-123, for a price given as a whole number of ticks of the symbol
validate_price(symbol, price) ==
    /\ validate_symbol(symbol)
    /\ ~(price <= 0)

\* lines 125-145
validate_side(side) == Strip(Upper(side)) \in {Str("BUY"), Str("SELL")}

\* lines 249-298
validate_oco_order(symbol, quantity, price, stop_price, stop_limit_price, side) ==
    IF ~(/\ validate_symbol(symbol)
         /\ validate_quantity(symbol, quantity)
         /\ validate_price(symbol, price)
         /\ validate_price(symbol, stop_price)
         /\ validate_price(symbol, stop_limit_price)
         /\ validate_side(side))
    THEN FALSE
    ELSE IF Upper(side) = Str("SELL")
    THEN ~(stop_price >= price) /\ ~(stop_limit_price > stop_price)
    ELSE IF Upper(side) = Str("BUY")
    THEN ~(stop_price <= price) /\ ~(stop_limit_price < stop_price)
    ELSE TRUE


\* The validator keeps no state between calls: one call is followed.
validate_oco_order_call(symbol, quantity, price, stop_price, stop_limit_price, side) ==
    /\ validatorCall.op = "none"
    /\ validatorCall' =
          [op |-> "validate_oco_order",
           args |-> <<symbol, quantity, price, stop_price, stop_limit_price, side>>,
           ret |-> validate_oco_order(symbol, quantity, price, stop_price,
                                      stop_limit_price, side)]
    /\ UNCHANGED <<exOrders, twapVars, gridVars, lastOp, stopLimitVars,
                 ocoVars>>

validate_twap_parameters_call(total_quantity, duration_minutes, intervals) ==
    /\ validatorCall.op = "none"
    /\ validatorCall' =
          [op |-> "validate_twap_parameters",
           args |-> <<total_quantity, duration_minutes, intervals>>,
           ret |-> validate_twap_parameters(total_quantity, duration_minutes, intervals)]
    /\ UNCHANGED <<exOrders, twapVars, gridVars, lastOp, stopLimitVars,
                 ocoVars>>

\* The arguments: two symbols, one of them unknown; whole quantities; prices
\* in ticks; sides in every spelling; totals -1.0, 0.0, 5e-324 (the smallest
\* positive float) and 10.0; durations and interval counts.
NextValidator ==
    \/ \E symbol \in {"BTCUSDT", "XYZUSDT"}, quantity \in {0, 1},
          price \in 0..3, stop_price \in 0..3, stop_limit_price \in 0..3,
          side \in [text : {"BUY", "SELL", "HOLD"}, small : BOOLEAN, blanks : BOOLEAN] :
           validate_oco_order_call(symbol, quantity, price, stop_price,
                                   stop_limit_price, side)
    \/ \E total_quantity \in {FNeg(FromInt(1)), FZero,
                              Round(0, <<1>>, MinExponent, FALSE), FromInt(10)},
          duration_minutes \in {0, 1, 2, 5, 10}, intervals \in {1, 2, 3, 5, 10} :
           validate_twap_parameters_call(total_quantity, duration_minutes, intervals)

SpecValidator == Init /\ [][NextValidator]_vars

(***************************************************************************)
(* TWAP handler (src/src/advanced/twap.py).                                *)
(***************************************************************************)
\* a loop that never looks at the stop flag
StopCheckIgnored(cfg) == FALSE

\* line 141: the stop check at the top of each interval
StopCheck(cfg) == cfg.stop_requested

\* a loop that is left after its first interval
TwapLoopOnce(cfg, task, i) ==
    IF i >= 1 \/ i >= cfg.intervals \/ StopCheck(cfg)
    THEN [cfg |-> [cfg EXCEPT !.status = "COMPLETED", !.has_end_time = TRUE,
                              !.end_time_old = FALSE],
          task |-> [task EXCEPT !.pc = "done", !.interval = i],
          calls |-> <<>>]
    ELSE [cfg |-> cfg,
          task |-> [task EXCEPT
                      !.pc = IF cfg.order_type = "MARKET" THEN "place" ELSE "ticker",
                      !.interval = i,
                      !.saw_stop = cfg.stop_requested],
          calls |-> <<IF cfg.order_type = "MARKET" THEN "place_order" ELSE "get_ticker">>]

\* The loop of _execute_twap entered for interval i: where the thread blocks
\* next, and the configuration it leaves.
TwapLoop(cfg, task, i) ==
    IF i >= cfg.intervals \/ StopCheck(cfg)
    THEN [cfg |-> [cfg EXCEPT !.status = "COMPLETED", !.has_end_time = TRUE,
                              !.end_time_old = FALSE],
          task |-> [task EXCEPT !.pc = "done", !.interval = i],
          calls |-> <<>>]
    ELSE [cfg |-> cfg,
          task |-> [task EXCEPT
                      !.pc = IF cfg.order_type = "MARKET" THEN "place" ELSE "ticker",
                      !.interval = i,
                      !.saw_stop = cfg.stop_requested],
          calls |-> <<IF cfg.order_type = "MARKET" THEN "place_order" ELSE "get_ticker">>]

start_twap(total, duration_minutes, intervals, order_type) ==
    /\ twap_counter' = NextCounter(twap_counter)
    /\ LET twap_id == NextCounter(twap_counter)
           total_quantity == FromInt(total)
       IN IF intervals = 0
          THEN \* ZeroDivisionError at line 52: logged, None returned
               /\ UNCHANGED <<active_twaps, twapTask>>
               /\ lastOp' = Op("start_twap", twap_id, "none", "None", <<>>)
          ELSE /\ active_twaps' = [t \in DOMAIN active_twaps \cup {twap_id} |->
                    IF t = twap_id
                    THEN [total_quantity |-> total_quantity,
                          quantity_per_interval |-> FDivSmall(total_quantity, intervals),
                          duration_minutes |-> duration_minutes,
                          intervals |-> intervals,
                          order_type |-> order_type,
                          executed_quantity |-> FZero,
                          executed_intervals |-> 0,
                          orders |-> <<>>,
                          status |-> "RUNNING",
                          stop_requested |-> FALSE,
                          has_end_time |-> FALSE,
                          end_time_old |-> FALSE]
                    ELSE active_twaps[t]]
               /\ twapTask' = [t \in DOMAIN twapTask \cup {twap_id} |->
                    IF t = twap_id
                    THEN [pc |-> "start", interval |-> 0, saw_stop |-> FALSE,
                          after_stop |-> 0, stopped_early |-> FALSE, attempts |-> 0]
                    ELSE twapTask[t]]
               /\ lastOp' = Op("start_twap", twap_id, "none", "id", <<>>)
    /\ UNCHANGED <<exOrders, otherThanTwap>>

\* lines 125-141: the thread starts and enters the loop
execute_twap_begin(id) ==
    /\ twapTask[id].pc = "start"
    /\ LET r == TwapLoop(active_twaps[id], twapTask[id], 0)
       IN /\ active_twaps' = [active_twaps EXCEPT ![id] = r.cfg]
          /\ twapTask' = [twapTask EXCEPT ![id] = r.task]
          /\ lastOp' = Op("execute_twap", id, active_twaps[id].status, "none", r.calls)
    /\ UNCHANGED <<exOrders, twap_counter, otherThanTwap>>

\* lines 153-156: get_ticker returned (a ticker or None), the adapted price is
\* computed and the IOC limit order is sent
execute_twap_ticker(id) ==
    /\ twapTask[id].pc = "ticker"
    /\ twapTask' = [twapTask EXCEPT ![id].pc = "place"]
    /\ lastOp' = Op("execute_twap", id, active_twaps[id].status, "none", <<"place_order">>)
    /\ UNCHANGED <<exOrders, twap_counter, active_twaps, otherThanTwap>>

\* an interval that is counted as executed whatever the gateway answered
order_response_counted(cfg, ok, order) ==
    [cfg EXCEPT !.executed_quantity = FAdd(@, cfg.quantity_per_interval),
                !.executed_intervals = @ + 1,
                !.orders = IF ok THEN Append(@, order) ELSE @]

\* lines 158-166: the answer to the order of one interval, an order or None
order_response(cfg, ok, order) ==
    IF ok
    THEN [cfg EXCEPT !.executed_quantity = FAdd(@, cfg.quantity_per_interval),
                     !.executed_intervals = @ + 1,
                     !.orders = Append(@, order)]
    ELSE cfg

\* lines 158-170 and the next loop head: the order call returned
execute_twap_place(id, ok) ==
    /\ twapTask[id].pc = "place"
    /\ LET cfg == active_twaps[id]
           task == twapTask[id]
           cfg1 == order_response(cfg, ok, NextOrderId(<<"TWAP", id>>))
           task1 == [task EXCEPT
                       !.after_stop = @ + (IF cfg.stop_requested THEN 1 ELSE 0),
                       !.attempts = @ + 1]
           r == IF task.interval < cfg.intervals - 1
                THEN [cfg |-> cfg1, task |-> [task1 EXCEPT !.pc = "sleep"], calls |-> <<>>]
                ELSE TwapLoop(cfg1, task1, task.interval + 1)
       IN /\ active_twaps' = [active_twaps EXCEPT ![id] = r.cfg]
          /\ twapTask' = [twapTask EXCEPT ![id] = r.task]
          /\ lastOp' = Op("execute_twap", id, active_twaps[id].status, "none", r.calls)
    /\ IF ok THEN ExchangePlace(<<"TWAP", id>>, "CLOSED") ELSE UNCHANGED exOrders
    /\ UNCHANGED <<twap_counter, otherThanTwap>>

\* line 170 returns: the sleep between two intervals is over
execute_twap_wake(id) ==
    /\ twapTask[id].pc = "sleep"
    /\ LET r == TwapLoop(active_twaps[id], twapTask[id], twapTask[id].interval + 1)
       IN /\ active_twaps' = [active_twaps EXCEPT ![id] = r.cfg]
          /\ twapTask' = [twapTask EXCEPT ![id] = r.task]
          /\ lastOp' = Op("execute_twap", id, active_twaps[id].status, "none", r.calls)
    /\ UNCHANGED <<exOrders, twap_counter, otherThanTwap>>

\* the last interval's order has been sent (or the thread is over)
LastDispatched(id) ==
    \/ twapTask[id].pc = "done"
    \/ /\ twapTask[id].pc \in {"place", "sleep"}
       /\ twapTask[id].interval >= active_twaps[id].intervals - 1

\* a stop that also cancels the child orders placed so far
stop_twap_cancelling(id) ==
    /\ id \in DOMAIN active_twaps
    /\ active_twaps' = [active_twaps EXCEPT
                          ![id].stop_requested = TRUE,
                          ![id].status = "STOPPED"]
    /\ lastOp' = Op("stop_twap", id, active_twaps[id].status, "True",
                    [i \in 1..Len(active_twaps[id].orders) |-> "cancel_order"])
    /\ UNCHANGED <<exOrders, twap_counter, twapTask, otherThanTwap>>

\* a stop_twap that answers True for an id it has no TWAP under
stop_twap_unknown_accepted(id) ==
    /\ IF id \notin DOMAIN active_twaps
       THEN /\ UNCHANGED <<active_twaps, twapTask>>
            /\ lastOp' = Op("stop_twap", id, "none", "True", <<>>)
       ELSE /\ active_twaps' = [active_twaps EXCEPT
                                  ![id].stop_requested = TRUE,
                                  ![id].status = "STOPPED"]
            /\ twapTask' = [twapTask EXCEPT ![id].stopped_early =
                              @ \/ (active_twaps[id].status = "RUNNING" /\ ~LastDispatched(id))]
            /\ lastOp' = Op("stop_twap", id, active_twaps[id].status, "True", <<>>)
    /\ UNCHANGED <<exOrders, twap_counter, otherThanTwap>>

stop_twap(id) ==
    /\ IF id \notin DOMAIN active_twaps
       THEN /\ UNCHANGED <<active_twaps, twapTask>>
            /\ lastOp' = Op("stop_twap", id, "none", "False", <<>>)
       ELSE /\ active_twaps' = [active_twaps EXCEPT
                                  ![id].stop_requested = TRUE,
                                  ![id].status = "STOPPED"]
            /\ twapTask' = [twapTask EXCEPT ![id].stopped_early =
                              @ \/ (active_twaps[id].status = "RUNNING" /\ ~LastDispatched(id))]
            /\ lastOp' = Op("stop_twap", id, active_twaps[id].status, "True", <<>>)
    /\ UNCHANGED <<exOrders, twap_counter, otherThanTwap>>

\* get_twap_status: the snapshot returned; None (here <<>>) for an id that is
\* not registered and when line 317 divides by a total_quantity of zero
get_twap_status(id) ==
    IF id \notin DOMAIN active_twaps THEN <<>>
    ELSE LET cfg == active_twaps[id]
         IN IF cfg.total_quantity = FZero THEN <<>>
            ELSE [status |-> cfg.status,
                  total_quantity |-> cfg.total_quantity,
                  executed_quantity |-> cfg.executed_quantity,
                  remaining_quantity |-> FSub(cfg.total_quantity, cfg.executed_quantity),
                  executed_intervals |-> cfg.executed_intervals,
                  total_intervals |-> cfg.intervals,
                  orders_count |-> Len(cfg.orders)]

TwapIds == 1..MaxTwaps

StartTwap ==
    /\ twap_counter < MaxTwaps
    /\ \E total \in Totals, d \in Durations, n \in 0..MaxIntervals, ot \in OrderTypes :
            start_twap(total, d, n, ot)

\* the one start_twap call of the specification that follows the quantities
StartTwapQty ==
    /\ twap_counter = 0
    /\ \E total \in QtyTotals, n \in 1..QtyIntervals, ot \in OrderTypes :
            start_twap(total, QtyIntervals, n, ot)

NextTwap ==
    \/ StartTwap
    \/ (\E id \in DOMAIN twapTask : execute_twap_begin(id))
    \/ (\E id \in DOMAIN twapTask : execute_twap_ticker(id))
    \/ (\E id \in DOMAIN twapTask, ok \in BOOLEAN : execute_twap_place(id, ok))
    \/ (\E id \in DOMAIN twapTask : execute_twap_wake(id))
    \/ (\E id \in TwapIds : stop_twap(id))

SpecTwap == Init /\ [][NextTwap]_vars

NextTwapQty ==
    \/ StartTwapQty
    \/ (\E id \in DOMAIN twapTask : execute_twap_begin(id))
    \/ (\E id \in DOMAIN twapTask : execute_twap_ticker(id))
    \/ (\E id \in DOMAIN twapTask, ok \in BOOLEAN : execute_twap_place(id, ok))
    \/ (\E id \in DOMAIN twapTask : execute_twap_wake(id))
    \/ (\E id \in TwapIds : stop_twap(id))

SpecTwapQty == Init /\ [][NextTwapQty]_vars

\* has_end_time, end_time_old: the configuration has an end_time, and that
\* time lies more than the retention window of one hour back (line 413).
\* Time passes.
twap_retention_elapses(id) ==
    /\ active_twaps[id].has_end_time
    /\ ~active_twaps[id].end_time_old
    /\ active_twaps' = [active_twaps EXCEPT ![id].end_time_old = TRUE]
    /\ UNCHANGED <<exOrders, twap_counter, twapTask, otherThanTwap, lastOp>>

\* lines 398-425
cleanup_completed_twaps ==
    /\ LET completed_twaps ==
               {id \in DOMAIN active_twaps :
                   /\ active_twaps[id].status \in {"COMPLETED", "FAILED"}
                   /\ active_twaps[id].has_end_time
                   /\ active_twaps[id].end_time_old}
       IN active_twaps' = [id \in DOMAIN active_twaps \ completed_twaps |-> active_twaps[id]]
    /\ lastOp' = Op("cleanup_completed_twaps", 0, "none", "none", <<>>)
    /\ UNCHANGED <<exOrders, twap_counter, twapTask, otherThanTwap>>

\* one start_twap call, for the specification with a scheduler
StartTwapOne ==
    /\ twap_counter = 0
    /\ \E total \in Totals, d \in Durations, n \in 0..MaxIntervals, ot \in OrderTypes :
            start_twap(total, d, n, ot)

NextTwapLive ==
    \/ StartTwapOne
    \/ (\E id \in DOMAIN twapTask : execute_twap_begin(id))
    \/ (\E id \in DOMAIN twapTask : execute_twap_ticker(id))
    \/ (\E id \in DOMAIN twapTask, ok \in BOOLEAN : execute_twap_place(id, ok))
    \/ (\E id \in DOMAIN twapTask : execute_twap_wake(id))
    \/ (\E id \in TwapIds : stop_twap(id))

\* The execution thread is scheduled, every gateway call returns and
\* time.sleep returns.
SpecTwapLive ==
    /\ Init
    /\ [][NextTwapLive]_vars
    /\ WF_vars((\E id \in DOMAIN twapTask : execute_twap_begin(id)))
    /\ WF_vars((\E id \in DOMAIN twapTask : execute_twap_ticker(id)))
    /\ WF_vars((\E id \in DOMAIN twapTask, ok \in BOOLEAN : execute_twap_place(id, ok)))
    /\ WF_vars((\E id \in DOMAIN twapTask : execute_twap_wake(id)))

(***************************************************************************)
(* Grid handler (src/src/advanced/grid_orders.py).                         *)
(***************************************************************************)
None == <<>>

Put(f, k, v) == [x \in DOMAIN f \cup {k} |-> IF x = k THEN v ELSE f[x]]

GridOwner(id) == <<"GRID", id>>

\* a level table whose level i holds lower + (i + 1) * increment
GridLevelsShifted(lower_price, price_increment, grid_levels, quantity_per_level) ==
    [k \in 1..grid_levels |->
        [price |-> FAdd(lower_price, FMulSmall(k, price_increment)),
         quantity |-> quantity_per_level,
         buy_order_id |-> None,
         sell_order_id |-> None,
         filled |-> FALSE]]

\* lines 54-65: the level table of a new grid
GridLevels(lower_price, price_increment, grid_levels, quantity_per_level) ==
    [k \in 1..grid_levels |->
        [price |-> FAdd(lower_price, FMulSmall(k - 1, price_increment)),
         quantity |-> quantity_per_level,
         buy_order_id |-> None,
         sell_order_id |-> None,
         filled |-> FALSE]]

\* a NEUTRAL grid that also buys at a level equal to the current price
InitialSideInclusive(grid_type, level_price, current_price) ==
    IF grid_type = "NEUTRAL"
    THEN (IF FLeq(level_price, current_price) THEN "BUY" ELSE "SELL")
    ELSE IF grid_type = "LONG"
    THEN (IF FLeq(level_price, current_price) THEN "BUY" ELSE "NONE")
    ELSE IF grid_type = "SHORT"
    THEN (IF FLeq(current_price, level_price) THEN "SELL" ELSE "NONE")
    ELSE "NONE"

\* lines 170-204: the side of the order sent for one level, None for no order
InitialSide(grid_type, level_price, current_price) ==
    IF grid_type = "NEUTRAL"
    THEN (IF FLess(level_price, current_price) THEN "BUY"
          ELSE IF FLess(current_price, level_price) THEN "SELL" ELSE "NONE")
    ELSE IF grid_type = "LONG"
    THEN (IF FLeq(level_price, current_price) THEN "BUY" ELSE "NONE")
    ELSE IF grid_type = "SHORT"
    THEN (IF FLeq(current_price, level_price) THEN "SELL" ELSE "NONE")
    ELSE "NONE"

\* line 164: the first level from k on for which an order is sent, 0 if none
RECURSIVE InitialScan(_, _, _)
InitialScan(obj, current_price, k) ==
    IF k > Len(obj.levels) THEN 0
    ELSE IF InitialSide(obj.grid_type, obj.levels[k].price, current_price) # "NONE" THEN k
    ELSE InitialScan(obj, current_price, k + 1)

\* a threshold of one half
SuccessThresholdHalf == FDivSmall(FromInt(5), 10)

\* line 213: the literal 0.7
SuccessThreshold == FDivSmall(FromInt(7), 10)

\* lines 210-213
InitialSuccess(successful_orders, total_orders_attempted) ==
    LET success_rate == IF total_orders_attempted > 0
                        THEN FDiv(FromInt(successful_orders), FromInt(total_orders_attempted))
                        ELSE FZero
    IN FLeq(SuccessThreshold, success_rate)

\* a stop_grid call: where it is, the level and the order id of the
\* cancel_order call in flight, its reason argument, the references that were
\* set when it was called, the order ids it has called cancel_order with, and
\* the value it returned
IdleCall == [pc |-> "idle", level |-> 0, arg |-> None, reason |-> "none",
             snapshot |-> {}, cancels |-> <<>>, ret |-> "none"]

MonInit == [pc |-> "start", level |-> 0, arg |-> None, stop |-> IdleCall]

\* lines 28-102: start_grid up to the get_ticker call of _place_initial_grid_orders
start_grid(lower, upper, grid_levels, total, grid_type, take_profit_percentage) ==
    /\ grid_counter' = NextCounter(grid_counter)
    /\ LET grid_id == NextCounter(grid_counter)
           lower_price == FromInt(lower)
           total_quantity == FromInt(total)
       IN IF grid_levels <= 1
          THEN \* ZeroDivisionError at line 51 or 52: logged, None returned
               UNCHANGED <<gridObj, active_grids, gridStart, gridStop>>
          ELSE LET price_increment ==
                       FDivSmall(FSub(FromInt(upper), lower_price), grid_levels - 1)
                   quantity_per_level == FDivSmall(total_quantity, grid_levels)
               IN /\ gridObj' = Put(gridObj, grid_id,
                        [upper_price |-> FromInt(upper),
                         lower_price |-> lower_price,
                         grid_levels |-> grid_levels,
                         total_quantity |-> total_quantity,
                         quantity_per_level |-> quantity_per_level,
                         price_increment |-> price_increment,
                         grid_type |-> grid_type,
                         take_profit_percentage |-> take_profit_percentage,
                         levels |-> GridLevels(lower_price, price_increment,
                                               grid_levels, quantity_per_level),
                         status |-> "ACTIVE",
                         total_profit |-> FZero,
                         trades_executed |-> 0,
                         stop_requested |-> FALSE,
                         stop_reason |-> "none",
                         has_stop_time |-> FALSE,
                         stop_time_old |-> FALSE])
                  /\ active_grids' = active_grids \cup {grid_id}
                  /\ gridStart' = Put(gridStart, grid_id,
                        [pc |-> "ticker", level |-> 0, has_ticker |-> FALSE,
                         current_price |-> FZero,
                         successful_orders |-> 0, total_orders_attempted |-> 0,
                         attempted |-> <<>>, ret |-> "none"])
                  /\ gridStop' = Put(gridStop, grid_id, IdleCall)
    /\ UNCHANGED <<exOrders, cancel_calls, otherThanGrid, monitoring_threads, gridMon, lastOp>>

\* _place_initial_grid_orders from level k on, then lines 104-120 of start_grid
InitialContinue(id, obj, st, k) ==
    LET n == InitialScan(obj, st.current_price, k)
    IN IF n # 0
       THEN /\ gridObj' = [gridObj EXCEPT ![id] = obj]
            /\ gridStart' = [gridStart EXCEPT ![id] = [st EXCEPT !.pc = "place", !.level = n]]
            /\ UNCHANGED <<active_grids, gridMon, monitoring_threads>>
       ELSE IF InitialSuccess(st.successful_orders, st.total_orders_attempted)
       THEN \* lines 106-115: the monitor thread is started, its entry stored and
            \* the id returned
            /\ gridObj' = [gridObj EXCEPT ![id] = obj]
            /\ gridStart' = [gridStart EXCEPT ![id] = [st EXCEPT !.pc = "done", !.level = 0,
                                                                !.ret = "id"]]
            /\ gridMon' = Put(gridMon, id, MonInit)
            /\ monitoring_threads' = monitoring_threads \cup {id}
            /\ UNCHANGED active_grids
       ELSE \* line 118
            /\ gridObj' = [gridObj EXCEPT ![id] = obj]
            /\ gridStart' = [gridStart EXCEPT ![id] = [st EXCEPT !.pc = "done", !.level = 0,
                                                                !.ret = "None"]]
            /\ active_grids' = active_grids \ {id}
            /\ UNCHANGED <<gridMon, monitoring_threads>>

\* lines 154-159: get_ticker returned a ticker with this price, or None
place_initial_grid_orders_ticker(id, ok, price) ==
    /\ gridStart[id].pc = "ticker"
    /\ IF ok
       THEN InitialContinue(id, gridObj[id],
                            [gridStart[id] EXCEPT !.has_ticker = TRUE,
                                                  !.current_price = FromInt(price)], 1)
       ELSE /\ gridStart' = [gridStart EXCEPT ![id].pc = "done", ![id].ret = "None"]
            /\ active_grids' = active_grids \ {id}
            /\ UNCHANGED <<gridObj, gridMon, monitoring_threads>>
    /\ UNCHANGED <<exOrders, cancel_calls, otherThanGrid, grid_counter, gridStop, lastOp>>

\* lines 174-204: the order call of one level returned
place_initial_grid_orders_place(id, ok) ==
    /\ gridStart[id].pc = "place"
    /\ LET st == gridStart[id]
           k == st.level
           obj == gridObj[id]
           side == InitialSide(obj.grid_type, obj.levels[k].price, st.current_price)
           obj1 == IF ~ok THEN obj
                   ELSE IF side = "BUY"
                   THEN [obj EXCEPT !.levels[k].buy_order_id = NextOrderId(GridOwner(id))]
                   ELSE [obj EXCEPT !.levels[k].sell_order_id = NextOrderId(GridOwner(id))]
           st1 == [st EXCEPT !.successful_orders = @ + (IF ok THEN 1 ELSE 0),
                             !.total_orders_attempted = @ + 1,
                             !.attempted = Append(@, <<k, side>>)]
       IN InitialContinue(id, obj1, st1, k + 1)
    /\ IF ok THEN ExchangePlace(GridOwner(id), "OPEN") ELSE UNCHANGED exOrders
    /\ UNCHANGED <<cancel_calls, otherThanGrid, grid_counter, gridStop, lastOp>>

\* The next order reference found set when the levels are walked from level k
\* on, the buy reference of a level before its sell reference (lines 306-315
\* and 456-467); level 0 when there is none.
RECURSIVE RefScan(_, _, _)
RefScan(levels, k, phase) ==
    IF k > Len(levels) THEN [level |-> 0, phase |-> "none", ref |-> None]
    ELSE IF phase = "buy"
    THEN (IF levels[k].buy_order_id # None
          THEN [level |-> k, phase |-> "buy", ref |-> levels[k].buy_order_id]
          ELSE RefScan(levels, k, "sell"))
    ELSE (IF levels[k].sell_order_id # None
          THEN [level |-> k, phase |-> "sell", ref |-> levels[k].sell_order_id]
          ELSE RefScan(levels, k + 1, "buy"))

\* the order references of a grid that are set
OpenRefs(obj) ==
    ({obj.levels[k].buy_order_id : k \in 1..Len(obj.levels)}
        \cup {obj.levels[k].sell_order_id : k \in 1..Len(obj.levels)}) \ {None}

\* a stop_grid that gives up after its first cancel_order call
StopContinueFirstOnly(obj, call, k, phase) ==
    LET n == RefScan(obj.levels, k, phase)
    IN IF n.level # 0 /\ call.cancels = <<>>
       THEN [obj |-> obj,
             call |-> [call EXCEPT !.pc = IF n.phase = "buy" THEN "cancel_buy" ELSE "cancel_sell",
                                   !.level = n.level,
                                   !.arg = n.ref,
                                   !.cancels = Append(@, n.ref)]]
       ELSE [obj |-> [obj EXCEPT !.status = "STOPPED",
                                 !.has_stop_time = TRUE,
                                 !.stop_time_old = FALSE,
                                 !.stop_reason = call.reason],
             call |-> [call EXCEPT !.pc = "returned", !.level = 0, !.arg = None,
                                   !.ret = "True"]]

\* lines 456-471: stop_grid walks on from level k and blocks in the next
\* cancel_order call, or finishes and returns True
StopContinue(obj, call, k, phase) ==
    LET n == RefScan(obj.levels, k, phase)
    IN IF n.level # 0
       THEN [obj |-> obj,
             call |-> [call EXCEPT !.pc = IF n.phase = "buy" THEN "cancel_buy" ELSE "cancel_sell",
                                   !.level = n.level,
                                   !.arg = n.ref,
                                   !.cancels = Append(@, n.ref)]]
       ELSE [obj |-> [obj EXCEPT !.status = "STOPPED",
                                 !.has_stop_time = TRUE,
                                 !.stop_time_old = FALSE,
                                 !.stop_reason = call.reason],
             call |-> [call EXCEPT !.pc = "returned", !.level = 0, !.arg = None,
                                   !.ret = "True"]]

\* lines 448-456: stop_grid on a registered grid
StopBegin(obj, reason) ==
    StopContinue([obj EXCEPT !.stop_requested = TRUE, !.status = "STOPPING"],
                 [IdleCall EXCEPT !.reason = reason, !.snapshot = OpenRefs(obj)],
                 1, "buy")

\* lines 459-461 and 465-467: cancel_order returned, the reference is cleared
StopCancelled(obj, call) ==
    IF call.pc = "cancel_buy"
    THEN StopContinue([obj EXCEPT !.levels[call.level].buy_order_id = None],
                      call, call.level, "sell")
    ELSE StopContinue([obj EXCEPT !.levels[call.level].sell_order_id = None],
                      call, call.level + 1, "buy")

\* the exchange answers a cancel_order call: a successful answer cancels an
\* order that is open, a null answer leaves the order as it is
ExchangeCancel(o, ok) ==
    /\ ok => exOrders[o] = "OPEN"
    /\ exOrders' = IF ok THEN [exOrders EXCEPT ![o] = "CANCELED"] ELSE exOrders
    /\ cancel_calls' = cancel_calls \cup {o}

\* stop_grid called by a user of the handler, who has the id of a grid once
\* start_grid has returned
stop_grid(id, reason) ==
    /\ id \in DOMAIN gridStart => gridStart[id].pc = "done"
    /\ IF id \notin active_grids
       THEN \* lines 444-446: False
            /\ lastOp' = Op("stop_grid", id, "none", "False", <<>>)
            /\ UNCHANGED <<gridObj, gridStop>>
       ELSE /\ gridStop[id].pc \in {"idle", "returned"}
            /\ LET r == StopBegin(gridObj[id], reason)
               IN /\ gridObj' = [gridObj EXCEPT ![id] = r.obj]
                  /\ gridStop' = [gridStop EXCEPT ![id] = r.call]
            /\ UNCHANGED lastOp
    /\ UNCHANGED <<exOrders, cancel_calls, otherThanGrid, grid_counter, active_grids,
                   monitoring_threads, gridStart, gridMon>>

stop_grid_cancel(id, ok) ==
    /\ gridStop[id].pc \in {"cancel_buy", "cancel_sell"}
    /\ ExchangeCancel(gridStop[id].arg, ok)
    /\ LET r == StopCancelled(gridObj[id], gridStop[id])
       IN /\ gridObj' = [gridObj EXCEPT ![id] = r.obj]
          /\ gridStop' = [gridStop EXCEPT ![id] = r.call]
    /\ UNCHANGED <<otherThanGrid, grid_counter, active_grids, monitoring_threads,
                   gridStart, gridMon, lastOp>>

\* a check that compares the profit as a fraction, not as a percentage
TakeProfitReachedFraction(obj) ==
    /\ obj.take_profit_percentage # 0
    /\ LET total_investment == FMul(obj.total_quantity, obj.lower_price)
       IN /\ total_investment # FZero
          /\ FLeq(FromInt(obj.take_profit_percentage),
                  FDiv(obj.total_profit, total_investment))

\* lines 416-425
TakeProfitReached(obj) ==
    /\ obj.take_profit_percentage # 0
    /\ LET total_investment == FMul(obj.total_quantity, obj.lower_price)
       IN /\ total_investment # FZero
          /\ FLeq(FromInt(obj.take_profit_percentage),
                  FMul(FDiv(obj.total_profit, total_investment), FromInt(100)))

\* line 278: the monitor thread sleeps
MonSleep(obj, mon) ==
    [obj |-> obj, mon |-> [mon EXCEPT !.pc = "sleep", !.level = 0, !.arg = None]]

\* lines 274-278: the end of a pass of the monitor
MonEndOfPass(id, obj, mon) ==
    IF id \in active_grids /\ TakeProfitReached(obj)
    THEN LET r == StopBegin(obj, "TAKE_PROFIT")
         IN IF r.call.pc = "returned"
            THEN MonSleep(r.obj, [mon EXCEPT !.stop = r.call])
            ELSE [obj |-> r.obj,
                  mon |-> [mon EXCEPT !.pc = "tp_stop", !.level = 0, !.arg = None,
                                      !.stop = r.call]]
    ELSE MonSleep(obj, mon)

\* lines 271-272 and 306-315: the pass goes on from level k and blocks in the
\* next get_order_status call. For a grid that is no longer registered
\* _check_level_orders raises at line 302 for every further level; the sell
\* reference of the level it is in is still looked at.
MonPass(id, obj, mon, k, phase) ==
    LET n == IF id \in active_grids THEN RefScan(obj.levels, k, phase)
             ELSE IF phase = "sell" /\ k <= Len(obj.levels)
                     /\ obj.levels[k].sell_order_id # None
             THEN [level |-> k, phase |-> "sell", ref |-> obj.levels[k].sell_order_id]
             ELSE [level |-> 0, phase |-> "none", ref |-> None]
    IN IF n.level # 0
       THEN [obj |-> obj,
             mon |-> [mon EXCEPT !.pc = IF n.phase = "buy" THEN "buy_status" ELSE "sell_status",
                                 !.level = n.level,
                                 !.arg = n.ref]]
       ELSE MonEndOfPass(id, obj, mon)

\* a loop that goes on whatever was requested
MonitorRunsAlways(obj) == TRUE

\* line 268: the loop condition of the monitor
MonitorRuns(obj) == obj.status = "ACTIVE" /\ ~obj.stop_requested

\* line 268 and lines 284-291
MonLoop(id, obj, mon) ==
    IF MonitorRuns(obj)
    THEN MonPass(id, obj, mon, 1, "buy")
    ELSE [obj |-> obj, mon |-> [mon EXCEPT !.pc = "done", !.level = 0, !.arg = None]]

\* the step of the monitor thread that leads to r
MonStep(id, r) ==
    /\ gridObj' = [gridObj EXCEPT ![id] = r.obj]
    /\ gridMon' = [gridMon EXCEPT ![id] = r.mon]
    /\ monitoring_threads' = IF r.mon.pc = "done" THEN monitoring_threads \ {id}
                             ELSE monitoring_threads
    /\ UNCHANGED <<otherThanGrid, grid_counter, active_grids, gridStart, gridStop, lastOp>>

\* lines 261-268: the monitor thread starts
monitor_grid_begin(id) ==
    /\ gridMon[id].pc = "start"
    /\ MonStep(id, MonLoop(id, gridObj[id], gridMon[id]))
    /\ UNCHANGED <<exOrders, cancel_calls>>

FilledOrders == {o \in DOMAIN exOrders : o[1][1] = "GRID" /\ exOrders[o] = "FILLED"}

\* a buy fill handler that sells at the price of the filled level
handle_buy_fill_same_price(obj, k) ==
    LET obj1 == [obj EXCEPT !.levels[k].filled = TRUE, !.trades_executed = @ + 1]
    IN IF k + 1 <= Len(obj.levels) /\ obj1.levels[k + 1].sell_order_id = None
       THEN [obj |-> obj1, place |-> TRUE,
             order |-> [side |-> "SELL", quantity |-> obj.levels[k].quantity,
                        price |-> obj.levels[k].price]]
       ELSE [obj |-> [obj1 EXCEPT !.levels[k].buy_order_id = None],
             place |-> FALSE, order |-> None]

\* _handle_buy_fill, lines 335-345, for level k (level index k - 1): the
\* grid it leaves when it blocks in the order call or returns, and the order
\* it sends
handle_buy_fill(obj, k) ==
    LET obj1 == [obj EXCEPT !.levels[k].filled = TRUE, !.trades_executed = @ + 1]
    IN IF k + 1 <= Len(obj.levels) /\ obj1.levels[k + 1].sell_order_id = None
       THEN [obj |-> obj1, place |-> TRUE,
             order |-> [side |-> "SELL", quantity |-> obj.levels[k].quantity,
                        price |-> obj.levels[k + 1].price]]
       ELSE [obj |-> [obj1 EXCEPT !.levels[k].buy_order_id = None],
             place |-> FALSE, order |-> None]

\* a sell fill handler that books no profit
handle_sell_fill_no_profit(obj, k) ==
    LET obj1 == [obj EXCEPT !.trades_executed = @ + 1, !.levels[k].filled = TRUE]
    IN IF k - 1 >= 1 /\ obj1.levels[k - 1].buy_order_id = None
       THEN [obj |-> obj1, place |-> TRUE,
             order |-> [side |-> "BUY", quantity |-> obj.levels[k].quantity,
                        price |-> obj.levels[k - 1].price]]
       ELSE [obj |-> [obj1 EXCEPT !.levels[k].sell_order_id = None],
             place |-> FALSE, order |-> None]

\* _handle_sell_fill, lines 370-386, for level k
handle_sell_fill(obj, k) ==
    LET profit == FMul(obj.price_increment, obj.levels[k].quantity)
        obj1 == [obj EXCEPT !.total_profit = FAdd(@, profit),
                            !.trades_executed = @ + 1,
                            !.levels[k].filled = TRUE]
    IN IF k - 1 >= 1 /\ obj1.levels[k - 1].buy_order_id = None
       THEN [obj |-> obj1, place |-> TRUE,
             order |-> [side |-> "BUY", quantity |-> obj.levels[k].quantity,
                        price |-> obj.levels[k - 1].price]]
       ELSE [obj |-> [obj1 EXCEPT !.levels[k].sell_order_id = None],
             place |-> FALSE, order |-> None]

\* a test that takes every answer for a fill
StatusAnswered(ok, status) ==
    ok

\* a test that takes a missing answer for a fill
StatusFilledOrNull(ok, status) ==
    ~ok \/ status = "FILLED"

\* lines 308 and 314: buy_status and buy_status.get('status') == 'FILLED'
StatusFilled(ok, status) ==
    ok /\ status = "FILLED"

\* lines 307-315: get_order_status returned, None or the status of the order;
\* fill: the exchange has filled the order since the monitor last asked.
\* A fill handler called for a grid that is no longer registered raises at
\* line 329 or 364 and changes nothing.
check_level_orders(id, ok, fill) ==
    /\ gridMon[id].pc \in {"buy_status", "sell_status"}
    /\ fill => exOrders[gridMon[id].arg] = "OPEN" /\ Cardinality(FilledOrders) < MaxFills
    /\ exOrders' = IF fill THEN [exOrders EXCEPT ![gridMon[id].arg] = "FILLED"] ELSE exOrders
    /\ LET obj == gridObj[id]
           mon == gridMon[id]
           k == mon.level
           filled == StatusFilled(ok, exOrders'[mon.arg]) /\ id \in active_grids
       IN IF mon.pc = "buy_status"
          THEN IF ~filled THEN MonStep(id, MonPass(id, obj, mon, k, "sell"))
               ELSE LET h == handle_buy_fill(obj, k)
                    IN IF h.place
                       THEN MonStep(id, [obj |-> h.obj,
                                         mon |-> [mon EXCEPT !.pc = "buy_place",
                                                             !.arg = h.order]])
                       ELSE MonStep(id, MonPass(id, h.obj, mon, k, "sell"))
          ELSE IF ~filled THEN MonStep(id, MonPass(id, obj, mon, k + 1, "buy"))
               ELSE LET h == handle_sell_fill(obj, k)
                    IN IF h.place
                       THEN MonStep(id, [obj |-> h.obj,
                                         mon |-> [mon EXCEPT !.pc = "sell_place",
                                                             !.arg = h.order]])
                       ELSE MonStep(id, MonPass(id, h.obj, mon, k + 1, "buy"))
    /\ UNCHANGED cancel_calls

\* lines 346-350 and 387-391: the order call of a fill handler returned
handle_fill_place(id, ok) ==
    /\ gridMon[id].pc \in {"buy_place", "sell_place"}
    /\ LET obj == gridObj[id]
           mon == gridMon[id]
           k == mon.level
           o == NextOrderId(GridOwner(id))
       IN IF mon.pc = "buy_place"
          THEN MonStep(id, MonPass(id,
                   [obj EXCEPT !.levels[k + 1].sell_order_id = IF ok THEN o ELSE @,
                               !.levels[k].buy_order_id = None],
                   mon, k, "sell"))
          ELSE MonStep(id, MonPass(id,
                   [obj EXCEPT !.levels[k - 1].buy_order_id = IF ok THEN o ELSE @,
                               !.levels[k].sell_order_id = None],
                   mon, k + 1, "buy"))
    /\ IF ok THEN ExchangePlace(GridOwner(id), "OPEN") ELSE UNCHANGED exOrders
    /\ UNCHANGED cancel_calls

\* a cancel_order call of the stop_grid made by _check_take_profit returned
check_take_profit_cancel(id, ok) ==
    /\ gridMon[id].pc = "tp_stop"
    /\ ExchangeCancel(gridMon[id].stop.arg, ok)
    /\ LET r == StopCancelled(gridObj[id], gridMon[id].stop)
       IN MonStep(id, IF r.call.pc = "returned"
                      THEN MonSleep(r.obj, [gridMon[id] EXCEPT !.stop = r.call])
                      ELSE [obj |-> r.obj,
                            mon |-> [gridMon[id] EXCEPT !.stop = r.call]])

\* line 278 returns
monitor_grid_wake(id) ==
    /\ gridMon[id].pc = "sleep"
    /\ MonStep(id, MonLoop(id, gridObj[id], gridMon[id]))
    /\ UNCHANGED <<exOrders, cancel_calls>>

StartGrid ==
    /\ grid_counter = 0
    /\ \E lower \in GridLowers, upper \in GridUppers, n \in 1..MaxLevels,
          total \in GridTotals, gt \in GridTypes, tp \in TakeProfits :
            start_grid(lower, upper, n, total, gt, tp)

PlaceInitialGridOrdersTicker ==
    \E id \in DOMAIN gridStart :
        \/ \E price \in TickerPrices : place_initial_grid_orders_ticker(id, TRUE, price)
        \/ place_initial_grid_orders_ticker(id, FALSE, 0)

PlaceInitialGridOrdersPlace ==
    \E id \in DOMAIN gridStart, ok \in BOOLEAN : place_initial_grid_orders_place(id, ok)

CheckLevelOrders ==
    \E id \in DOMAIN gridMon, ok \in BOOLEAN, fill \in BOOLEAN : check_level_orders(id, ok, fill)

CheckTakeProfitCancel ==
    \E id \in DOMAIN gridMon, ok \in BOOLEAN : check_take_profit_cancel(id, ok)

NextGrid ==
    \/ StartGrid
    \/ PlaceInitialGridOrdersTicker
    \/ PlaceInitialGridOrdersPlace
    \/ (\E id \in DOMAIN gridMon : monitor_grid_begin(id))
    \/ CheckLevelOrders
    \/ (\E id \in DOMAIN gridMon, ok \in BOOLEAN : handle_fill_place(id, ok))
    \/ CheckTakeProfitCancel
    \/ (\E id \in DOMAIN gridMon : monitor_grid_wake(id))
    \/ (\E id \in active_grids, reason \in StopReasons : stop_grid(id, reason))
    \/ (\E id \in DOMAIN gridStop, ok \in BOOLEAN : stop_grid_cancel(id, ok))

SpecGrid == Init /\ [][NextGrid]_vars

\* One step of the monitor thread of grid id.
MonitorStep(id) ==
    \/ monitor_grid_begin(id)
    \/ \E ok \in BOOLEAN, fill \in BOOLEAN : check_level_orders(id, ok, fill)
    \/ \E ok \in BOOLEAN : handle_fill_place(id, ok)
    \/ \E ok \in BOOLEAN : check_take_profit_cancel(id, ok)
    \/ monitor_grid_wake(id)

\* The monitor thread of a grid whose stop was requested has not returned.
\* In every such state a step of the thread is possible and changes the
\* state: a blocked gateway call gets its answer, time.sleep returns, or the
\* while test of line 256 is taken.
MonitorPending(id) ==
    /\ id \in DOMAIN gridMon
    /\ gridMon[id].pc # "done"
    /\ gridObj[id].stop_requested

\* Weak fairness of MonitorStep(id) for a stopped grid, with the enabling
\* condition written as the state predicate MonitorPending(id):
\* WF_vars(MonitorStep(id)) implies this formula.
MonitorScheduled(id) ==
    []<>(~MonitorPending(id)) \/ []<><<MonitorStep(id)>>_vars

\* The monitor thread is scheduled, every gateway call it makes returns and
\* time.sleep returns.
SpecGridLive ==
    /\ Init
    /\ [][NextGrid]_vars
    /\ \A id \in 1..MaxStarts : MonitorScheduled(id)

\* has_stop_time, stop_time_old: the grid has a stop_time, and that time
\* lies more than the retention window of 3600 seconds back (line 646).
\* Time passes.
grid_retention_elapses(id) ==
    /\ gridObj[id].has_stop_time
    /\ ~gridObj[id].stop_time_old
    /\ gridObj' = [gridObj EXCEPT ![id].stop_time_old = TRUE]
    /\ UNCHANGED <<exOrders, cancel_calls, otherThanGrid, grid_counter, active_grids,
                   monitoring_threads, gridStart, gridMon, gridStop, lastOp>>

\* a cleanup pass that does not wait for the retention window
cleanup_stopped_grids_at_once ==
    /\ LET stopped_grids ==
               {id \in active_grids :
                   gridObj[id].status = "STOPPED" /\ gridObj[id].has_stop_time}
       IN active_grids' = active_grids \ stopped_grids
    /\ UNCHANGED <<exOrders, cancel_calls, otherThanGrid, grid_counter, gridObj,
                   monitoring_threads, gridStart, gridMon, gridStop, lastOp>>

\* lines 631-658
cleanup_stopped_grids ==
    /\ LET stopped_grids ==
               {id \in active_grids :
                   /\ gridObj[id].status = "STOPPED"
                   /\ gridObj[id].has_stop_time
                   /\ gridObj[id].stop_time_old}
       IN active_grids' = active_grids \ stopped_grids
    /\ UNCHANGED <<exOrders, cancel_calls, otherThanGrid, grid_counter, gridObj,
                   monitoring_threads, gridStart, gridMon, gridStop, lastOp>>

\* The two handlers share no state: a behaviour of this specification uses
\* one of them, with its cleanup pass and the passing of time.
NextRegistry ==
    \/ twap_counter = 0 /\ StartGrid
    \/ PlaceInitialGridOrdersTicker
    \/ PlaceInitialGridOrdersPlace
    \/ (\E id \in DOMAIN gridMon : monitor_grid_begin(id))
    \/ CheckLevelOrders
    \/ (\E id \in DOMAIN gridMon, ok \in BOOLEAN : handle_fill_place(id, ok))
    \/ CheckTakeProfitCancel
    \/ (\E id \in DOMAIN gridMon : monitor_grid_wake(id))
    \/ twap_counter = 0 /\ (\E id \in active_grids, reason \in StopReasons : stop_grid(id, reason))
    \/ (\E id \in DOMAIN gridStop, ok \in BOOLEAN : stop_grid_cancel(id, ok))
    \/ (\E id \in DOMAIN gridObj : grid_retention_elapses(id))
    \/ twap_counter = 0 /\ cleanup_stopped_grids
    \/ grid_counter = 0 /\ StartTwapOne
    \/ (\E id \in DOMAIN twapTask : execute_twap_begin(id))
    \/ (\E id \in DOMAIN twapTask : execute_twap_ticker(id))
    \/ (\E id \in DOMAIN twapTask, ok \in BOOLEAN : execute_twap_place(id, ok))
    \/ (\E id \in DOMAIN twapTask : execute_twap_wake(id))
    \/ grid_counter = 0 /\ (\E id \in TwapIds : stop_twap(id))
    \/ (\E id \in DOMAIN active_twaps : twap_retention_elapses(id))
    \/ grid_counter = 0 /\ cleanup_completed_twaps

SpecRegistry == Init /\ [][NextRegistry]_vars

\* one start_grid call followed to its return, over a wider set of inputs
StartGridWide ==
    /\ grid_counter = 0
    /\ \E lower \in StartLowers, upper \in StartUppers, n \in 1..MaxStartLevels,
          total \in GridTotals, gt \in GridTypes :
            start_grid(lower, upper, n, total, gt, 0)

PlaceInitialGridOrdersTickerWide ==
    \E id \in DOMAIN gridStart :
        \/ \E price \in StartTickerPrices : place_initial_grid_orders_ticker(id, TRUE, price)
        \/ place_initial_grid_orders_ticker(id, FALSE, 0)

NextGridStart ==
    \/ StartGridWide
    \/ PlaceInitialGridOrdersTickerWide
    \/ PlaceInitialGridOrdersPlace

SpecGridStart == Init /\ [][NextGridStart]_vars

\* lines 492-535 of grid_orders.py: get_grid_status, None for an id that is
\* not registered (runtime_seconds and start_time are left out)
get_grid_status(id) ==
    IF id \notin active_grids THEN None
    ELSE LET grid_config == gridObj[id]
             total_investment == FMul(grid_config.total_quantity, grid_config.lower_price)
             count(field) == Cardinality({k \in DOMAIN grid_config.levels :
                                             grid_config.levels[k][field] # None})
         IN [status |-> grid_config.status,
             grid_type |-> grid_config.grid_type,
             total_profit |-> grid_config.total_profit,
             profit_percentage |->
                 IF FLess(FZero, total_investment)
                 THEN FMul(FDiv(grid_config.total_profit, total_investment), FromInt(100))
                 ELSE FZero,
             trades_executed |-> grid_config.trades_executed,
             active_buy_orders |-> count("buy_order_id"),
             active_sell_orders |-> count("sell_order_id"),
             filled_levels |-> Cardinality({k \in DOMAIN grid_config.levels :
                                               grid_config.levels[k].filled})]

\* lines 386-392 of twap.py: get_all_active_twaps, the snapshots of the
\* registered TWAPs whose status is RUNNING or STOPPED
get_all_active_twaps ==
    LET ids == {twap_id \in DOMAIN active_twaps :
                   active_twaps[twap_id].status \in {"RUNNING", "STOPPED"}}
    IN [twap_id \in ids |-> get_twap_status(twap_id)]

\* lines 553-560 of grid_orders.py: get_all_active_grids, the snapshots of
\* the registered grids whose snapshot has status ACTIVE or STOPPING
get_all_active_grids ==
    LET ids == {grid_id \in active_grids :
                   /\ get_grid_status(grid_id) # None
                   /\ get_grid_status(grid_id).status \in {"ACTIVE", "STOPPING"}}
    IN [grid_id \in ids |-> get_grid_status(grid_id)]

\* Several instances started on one handler, and stop calls with the ids
\* handed out and with one that was not.  A behaviour uses one of the two
\* handlers.
NextStarts ==
    \/ grid_counter = 0 /\ twap_counter < MaxStarts
          /\ \E n \in {0, 2} : start_twap(1, 2, n, "MARKET")
    \/ (\E id \in DOMAIN twapTask : execute_twap_begin(id))
    \/ (\E id \in DOMAIN twapTask, ok \in BOOLEAN : execute_twap_place(id, ok))
    \/ (\E id \in DOMAIN twapTask : execute_twap_wake(id))
    \/ grid_counter = 0 /\ (\E id \in 1..(twap_counter + 1) : stop_twap(id))
    \/ twap_counter = 0 /\ grid_counter < MaxStarts
          /\ \E n \in 1..2 : start_grid(1, 3, n, 3, "NEUTRAL", 0)
    \/ PlaceInitialGridOrdersTicker
    \/ PlaceInitialGridOrdersPlace
    \/ twap_counter = 0
          /\ (\E id \in 1..(grid_counter + 1) : stop_grid(id, "MANUAL"))
    \/ (\E id \in DOMAIN gridStop, ok \in BOOLEAN : stop_grid_cancel(id, ok))

SpecStarts == Init /\ [][NextStarts]_vars

(***************************************************************************)
(* OCO handler (src/src/advanced/oco.py).                                  *)
(*                                                                         *)
(* The handler keeps no state of its own: the state is the call in         *)
(* progress and the orders on the exchange.  A response of the gateway is  *)
(* None when the request failed and the order otherwise; a request is      *)
(* recorded in the call with its endpoint and parameters.                  *)
(***************************************************************************)
OcoOwner == <<"OCO", 1>>

\* f"OCO_SIM_{int(time.time())}": made by the handler, never sent to the
\* exchange
OcoListId == "OCO_SIM"

\* lines 128-135
LimitParams(side, quantity, price) ==
    [method |-> "POST", endpoint |-> "/fapi/v1/order", side |-> side,
     type |-> "LIMIT", quantity |-> quantity, price |-> price]

\* lines 143-151
StopParams(side, quantity, stop_price) ==
    [method |-> "POST", endpoint |-> "/fapi/v1/order",
     side |-> IF side = "BUY" THEN "SELL" ELSE "BUY",
     type |-> "STOP_MARKET", quantity |-> quantity, price |-> stop_price]

\* lines 22-64 and 108-137: place_order calls _place_oco_order, which sends
\* the limit order
oco_place_order(side, quantity, price, stop_price) ==
    /\ ocoPlace.pc = "idle"
    /\ ocoPlace' = [ocoPlace EXCEPT !.pc = "limit",
                                    !.side = side,
                                    !.quantity = quantity,
                                    !.price = price,
                                    !.stop_price = stop_price,
                                    !.requests = <<LimitParams(side, quantity, price)>>]
    /\ UNCHANGED <<exOrders, twapVars, gridVars, lastOp, stopLimitVars,
                 validatorCall, ocoCancel>>

\* a handler that sends the stop order whatever the limit order's response
limit_answered_stop_always(call, limit_response) ==
    [call EXCEPT !.pc = "stop",
                 !.limit_response = limit_response,
                 !.requests = Append(@, StopParams(call.side, call.quantity,
                                                   call.stop_price))]

\* lines 137-153 and 164, then 66-89: the response of the limit order
limit_answered(call, limit_response) ==
    IF limit_response # None
    THEN [call EXCEPT !.pc = "stop",
                      !.limit_response = limit_response,
                      !.requests = Append(@, StopParams(call.side, call.quantity,
                                                        call.stop_price))]
    ELSE [call EXCEPT !.pc = "returned", !.ret = [null |-> TRUE]]

\* lines 153-162, then 66-82: the response of the stop order
stop_answered(call, stop_response, limit_status) ==
    [call EXCEPT !.pc = "returned",
                 !.stop_response = stop_response,
                 !.ret = [null |-> FALSE,
                          orderListId |-> OcoListId,
                          limit_order |-> call.limit_response,
                          stop_order |-> stop_response,
                          type |-> "OCO_SIMULATION",
                          status |-> IF limit_status = "FILLED" THEN "FILLED"
                                                                ELSE "NEW"]]

oco_limit_response(ok, filled) ==
    /\ ocoPlace.pc = "limit"
    /\ ocoPlace' = limit_answered(ocoPlace, IF ok THEN NextOrderId(OcoOwner) ELSE None)
    /\ IF ok THEN ExchangePlace(OcoOwner, IF filled THEN "FILLED" ELSE "OPEN")
             ELSE UNCHANGED exOrders
    /\ UNCHANGED <<twapVars, gridVars, lastOp, stopLimitVars,
                 validatorCall, ocoCancel>>

oco_stop_response(ok) ==
    /\ ocoPlace.pc = "stop"
    /\ ocoPlace' = stop_answered(ocoPlace, IF ok THEN NextOrderId(OcoOwner) ELSE None,
                                 IF ocoPlace.limit_response \in DOMAIN exOrders
                                 THEN exOrders[ocoPlace.limit_response]
                                 ELSE "none")
    /\ IF ok THEN ExchangePlace(OcoOwner, "OPEN") ELSE UNCHANGED exOrders
    /\ UNCHANGED <<twapVars, gridVars, lastOp, stopLimitVars,
                 validatorCall, ocoCancel>>

\* lines 206-225: cancel_oco_order sends one request, for the order list.
\* group: what place_order had returned when the call was made.
oco_cancel_order(order_list_id) ==
    /\ ocoCancel.pc = "idle"
    /\ ocoPlace.pc \in {"idle", "returned"}
    /\ ocoCancel' = [ocoCancel EXCEPT
                        !.pc = "delete",
                        !.order_list_id = order_list_id,
                        !.group = ocoPlace.ret,
                        !.requests = <<[method |-> "DELETE",
                                        endpoint |-> "/fapi/v1/orderList",
                                        orderListId |-> order_list_id]>>]
    /\ UNCHANGED <<exOrders, twapVars, gridVars, lastOp, stopLimitVars,
                 validatorCall, ocoPlace>>

\* lines 227-254: the response of the order list request.  The exchange
\* holds no order list: both legs were sent as single orders (lines 137
\* and 153), so whatever it answers, no order changes.
oco_cancel_response(ok) ==
    /\ ocoCancel.pc = "delete"
    /\ ocoCancel' = [ocoCancel EXCEPT !.pc = "returned",
                                      !.ret = IF ok THEN "response" ELSE "None"]
    /\ UNCHANGED <<exOrders, twapVars, gridVars, lastOp, stopLimitVars,
                 validatorCall, ocoPlace>>

NextOco ==
    \/ \E side \in {"BUY", "SELL"}, quantity \in {1, 2},
          price \in {100, 110}, stop_price \in {95, 105} :
           oco_place_order(side, quantity, price, stop_price)
    \/ \E ok \in BOOLEAN, filled \in BOOLEAN : oco_limit_response(ok, filled)
    \/ \E ok \in BOOLEAN : oco_stop_response(ok)
    \/ \E order_list_id \in {OcoListId, "OTHER"} : oco_cancel_order(order_list_id)
    \/ \E ok \in BOOLEAN : oco_cancel_response(ok)

SpecOco == Init /\ [][NextOco]_vars

(***************************************************************************)
(* Stop-limit handler (src/src/advanced/stop_limit.py).                    *)
(***************************************************************************)
BracketOwner == <<"BRACKET", 1>>

\* lines 397-425: calculate_stop_levels with the default risk_percentage 2.0
\* and reward_ratio 2.0; {} (None here) when the division by entry_price raises
calculate_stop_levels(entry_price, position_side) ==
    LET risk_amount == FMul(entry_price, FDivSmall(FromInt(2), 100))
        reward_amount == FMulSmall(2, risk_amount)
    IN IF entry_price = FZero THEN None
       ELSE IF position_side = "LONG"
            THEN [stop_loss |-> FSub(entry_price, risk_amount),
                  take_profit |-> FAdd(entry_price, reward_amount)]
            ELSE [stop_loss |-> FAdd(entry_price, risk_amount),
                  take_profit |-> FSub(entry_price, reward_amount)]

\* lines 131-135 and 167-171: the side is taken from the sign of quantity
ClosingSide(quantity) ==
    IF quantity > 0 THEN "SELL" ELSE "BUY"

\* lines 131-147 and 167-183, then 43-66: the request place_stop_loss
\* (percent = 99) and place_take_profit (percent = 101) send; percent is the
\* limit price of a SELL in percent of the stop price, a BUY takes the
\* opposite one
StopRequest(quantity, stop_price, percent) ==
    LET side == ClosingSide(quantity)
    IN [method |-> "POST", type |-> "STOP", side |-> side,
        quantity |-> IF quantity > 0 THEN quantity ELSE -quantity,
        stopPrice |-> stop_price,
        price |-> FMul(stop_price,
                       FDivSmall(FromInt(IF side = "SELL" THEN percent ELSE 200 - percent),
                                 100)),
        reduceOnly |-> TRUE]

\* a test of the entry order that takes any answer of the exchange
EntryFilledOrAnswered(entry_order) ==
    ~entry_order.null

\* line 443: not (not entry_order or entry_order.get('status') != 'FILLED')
EntryFilled(entry_order) ==
    ~entry_order.null /\ entry_order.status = "FILLED"

\* lines 439-441: the call, up to the request of the entry order's status
create_bracket_stop_orders(position_side) ==
    /\ bracketCall.pc = "idle"
    /\ bracketCall' = [bracketCall EXCEPT !.pc = "status",
                                          !.position_side = position_side]
    /\ UNCHANGED <<exOrders, twapVars, gridVars, lastOp, ocoVars, validatorCall,
                   monitoring_orders, is_monitoring, priceLoop, executed>>

\* lines 441-458: the answer of get_order_status, up to the stop-loss request
bracket_status_response(entry_order) ==
    /\ bracketCall.pc = "status"
    /\ LET levels == calculate_stop_levels(FromInt(entry_order.avgPrice),
                                           bracketCall.position_side)
       IN bracketCall' =
            IF ~EntryFilled(entry_order) \/ levels = None
            THEN [bracketCall EXCEPT !.pc = "returned",
                                     !.entry_order = entry_order,
                                     !.ret = <<>>]
            ELSE [bracketCall EXCEPT
                     !.pc = "stop_loss",
                     !.entry_order = entry_order,
                     !.requests = <<StopRequest(entry_order.executedQty,
                                                levels.stop_loss, 99)>>]
    /\ UNCHANGED <<exOrders, twapVars, gridVars, lastOp, ocoVars, validatorCall,
                   monitoring_orders, is_monitoring, priceLoop, executed>>

\* lines 458-465: the answer to the stop-loss order, up to the take-profit
\* request
bracket_stop_loss_response(ok) ==
    /\ bracketCall.pc = "stop_loss"
    /\ LET levels == calculate_stop_levels(
                         FromInt(bracketCall.entry_order.avgPrice),
                         bracketCall.position_side)
       IN bracketCall' = [bracketCall EXCEPT
            !.pc = "take_profit",
            !.orders = IF ok THEN Put(@, "stop_loss", NextOrderId(BracketOwner))
                             ELSE @,
            !.requests = Append(@, StopRequest(bracketCall.entry_order.executedQty,
                                               levels.take_profit, 101))]
    /\ IF ok THEN ExchangePlace(BracketOwner, "OPEN") ELSE UNCHANGED exOrders
    /\ UNCHANGED <<twapVars, gridVars, lastOp, ocoVars, validatorCall,
                   monitoring_orders, is_monitoring, priceLoop, executed>>

\* lines 463-469: the answer to the take-profit order, and the return
bracket_take_profit_response(ok) ==
    /\ bracketCall.pc = "take_profit"
    /\ LET orders == IF ok THEN Put(bracketCall.orders, "take_profit",
                                    NextOrderId(BracketOwner))
                           ELSE bracketCall.orders
       IN bracketCall' = [bracketCall EXCEPT !.pc = "returned",
                                             !.orders = orders,
                                             !.ret = orders]
    /\ IF ok THEN ExchangePlace(BracketOwner, "OPEN") ELSE UNCHANGED exOrders
    /\ UNCHANGED <<twapVars, gridVars, lastOp, ocoVars, validatorCall,
                   monitoring_orders, is_monitoring, priceLoop, executed>>

ManualOwner == <<"MANUAL", 1>>

\* the stop conditions callers register; name tells them apart
Conditions ==
    {[name |-> "a", trigger_price |-> 2, trigger_type |-> "above", order_type |-> "MARKET"],
     [name |-> "b", trigger_price |-> 3, trigger_type |-> "above", order_type |-> "LIMIT"],
     [name |-> "c", trigger_price |-> 1, trigger_type |-> "below", order_type |-> "MARKET"]}

\* the stop_conditions lists given to monitor_price_for_manual_stops
ConditionLists ==
    {l \in UNION {[1..n -> Conditions] : n \in 1..MaxConditions} :
        \A x, y \in DOMAIN l : x # y => l[x] # l[y]}

\* line 487: the monitor ids, made of the symbol and the second of the
\* call; one symbol here
MonitorIds == 1..2

\* the monitor ids generated so far
Monitors == {k[1] : k \in DOMAIN executed}

\* the id of a call made in a later second than every call before it
FreshMonitorId == Cardinality(Monitors) + 1

\* lines 551-575
check_stop_condition(current_price, condition) ==
    IF condition.trigger_type = "above"
    THEN current_price >= condition.trigger_price
    ELSE current_price <= condition.trigger_price

\* lines 517-542: the loop is in the for loop over its snapshot
\* list(self.monitoring_orders.items()) and has not finished with this monitor
LoopHolds(monitor_id) ==
    /\ priceLoop.pc \in {"ticker", "execute"}
    /\ \E x \in priceLoop.pos..Len(priceLoop.items) : priceLoop.items[x] = monitor_id

\* lines 487-502: monitor_price_for_manual_stops, monitor_id being the id of
\* line 487. The assignment of line 489 replaces an entry of the same id;
\* a loop that holds the replaced dict in its snapshot goes on with that
\* dict, kept in priceLoop.old.
monitor_price_for_manual_stops(monitor_id, stop_conditions) ==
    /\ monitor_id \in MonitorIds
    /\ monitoring_orders' = Put(monitoring_orders, monitor_id,
                                [symbol |-> "BTCUSDT",
                                 conditions |-> stop_conditions,
                                 active |-> TRUE])
    /\ executed' = [k \in DOMAIN executed \cup
                          {<<monitor_id, stop_conditions[x].name>> :
                               x \in DOMAIN stop_conditions} |->
                       IF k \in DOMAIN executed THEN executed[k] ELSE 0]
    /\ LET loop == IF /\ monitor_id \in DOMAIN monitoring_orders
                      /\ LoopHolds(monitor_id)
                      /\ monitor_id \notin DOMAIN priceLoop.old
                   THEN [priceLoop EXCEPT
                            !.old = Put(@, monitor_id,
                                        monitoring_orders[monitor_id].conditions)]
                   ELSE priceLoop
       IN IF ~is_monitoring
          THEN /\ is_monitoring' = TRUE
               /\ priceLoop' = [loop EXCEPT !.pc = "start"]
          ELSE /\ is_monitoring' = is_monitoring
               /\ priceLoop' = loop
    /\ UNCHANGED <<exOrders, twapVars, gridVars, lastOp, ocoVars, validatorCall,
                   bracketCall>>

\* line 517: the loop goes to the next monitor of its snapshot and asks for
\* the ticker (line 525), or, the snapshot done, sleeps (line 544)
NextMonitor(loop) ==
    LET ahead == {loop.items[x] : x \in (loop.pos + 1)..Len(loop.items)}
        old == [m \in ahead \cap DOMAIN loop.old |-> loop.old[m]]
    IN IF loop.pos < Len(loop.items)
       THEN [loop EXCEPT !.pc = "ticker", !.pos = @ + 1, !.idx = 0, !.old = old]
       ELSE [loop EXCEPT !.pc = "sleep", !.pos = 0, !.idx = 0, !.old = old]

\* line 522: conditions = monitor_data['conditions'], the list of the dict
\* the snapshot holds for this monitor
LoopConditions(monitor_id) ==
    IF monitor_id \in DOMAIN priceLoop.old
    THEN priceLoop.old[monitor_id]
    ELSE monitoring_orders[monitor_id].conditions

\* lines 516-525: the test of the while loop, when the thread starts and
\* after each sleep. No lock is held: a loop that found the registry empty
\* has left the while, with is_monitoring still set until its finally clause.
price_monitor_loop_while ==
    /\ priceLoop.pc \in {"start", "sleep"}
    /\ IF is_monitoring /\ DOMAIN monitoring_orders # {}
       THEN /\ LET ids == DOMAIN monitoring_orders
                   items == CHOOSE l \in [1..Cardinality(ids) -> ids] :
                                \A x, y \in DOMAIN l : x < y => l[x] < l[y]
               IN priceLoop' = NextMonitor([priceLoop EXCEPT !.items = items,
                                                             !.pos = 0])
            /\ UNCHANGED is_monitoring
       ELSE /\ priceLoop' = [priceLoop EXCEPT !.pc = "exiting", !.items = <<>>]
            /\ UNCHANGED is_monitoring
    /\ UNCHANGED <<exOrders, twapVars, gridVars, lastOp, ocoVars, validatorCall,
                   bracketCall, monitoring_orders, executed>>

\* lines 548-549: the finally clause of the loop, and the end of the thread
price_monitor_loop_finally ==
    /\ priceLoop.pc = "exiting"
    /\ priceLoop' = [priceLoop EXCEPT !.pc = "none"]
    /\ is_monitoring' = FALSE
    /\ UNCHANGED <<exOrders, twapVars, gridVars, lastOp, ocoVars, validatorCall,
                   bracketCall, monitoring_orders, executed>>

\* a loop that leaves an executed condition in the list
after_execute_keep(conditions, i) ==
    conditions

\* line 538: conditions.remove(condition), the condition at position i
after_execute(conditions, i) ==
    [x \in 1..(Len(conditions) - 1) |->
        IF x < i THEN conditions[x] ELSE conditions[x + 1]]

\* lines 532-542: the for loop over conditions, of which idx have been
\* taken, up to the order request of _execute_manual_stop (lines 577-600)
\* or to the end of the list
for_conditions(monitor_id, conditions, idx, current_price) ==
    LET triggered == {x \in (idx + 1)..Len(conditions) :
                         check_stop_condition(current_price, conditions[x])}
        replaced == monitor_id \in DOMAIN priceLoop.old
        stored == IF replaced THEN monitoring_orders
                  ELSE [monitoring_orders EXCEPT ![monitor_id].conditions = conditions]
    IN IF triggered # {}
       THEN LET i == CHOOSE x \in triggered : \A y \in triggered : x <= y
            IN /\ priceLoop' = [priceLoop EXCEPT
                                   !.pc = "execute", !.idx = i,
                                   !.current_price = current_price,
                                   !.old = IF replaced
                                           THEN [@ EXCEPT ![monitor_id] = conditions]
                                           ELSE @]
               /\ monitoring_orders' = stored
               /\ executed' = [executed EXCEPT
                                  ![<<monitor_id, conditions[i].name>>] = @ + 1]
       ELSE /\ priceLoop' = [NextMonitor(priceLoop) EXCEPT
                                !.current_price = current_price]
            /\ monitoring_orders' =
                   IF conditions = <<>>
                   THEN [m \in DOMAIN monitoring_orders \ {monitor_id} |->
                            monitoring_orders[m]]
                   ELSE stored
            /\ UNCHANGED executed

\* lines 525-533: the answer of get_ticker, None or a price
price_monitor_ticker_response(ticker) ==
    /\ priceLoop.pc = "ticker"
    /\ IF ticker = None
       THEN /\ priceLoop' = NextMonitor(priceLoop)
            /\ UNCHANGED <<monitoring_orders, executed>>
       ELSE for_conditions(priceLoop.items[priceLoop.pos],
                           LoopConditions(priceLoop.items[priceLoop.pos]),
                           0, ticker[1])
    /\ UNCHANGED <<exOrders, twapVars, gridVars, lastOp, ocoVars, validatorCall,
                   bracketCall, is_monitoring>>

\* lines 586-607, then 538-542: the answer to the order of
\* _execute_manual_stop, the removal of the condition and the rest of the loop
execute_manual_stop_response(ok) ==
    /\ priceLoop.pc = "execute"
    /\ LET monitor_id == priceLoop.items[priceLoop.pos]
           conditions == LoopConditions(monitor_id)
       IN /\ IF ok
             THEN ExchangePlace(ManualOwner,
                                IF conditions[priceLoop.idx].order_type = "MARKET"
                                THEN "FILLED" ELSE "OPEN")
             ELSE UNCHANGED exOrders
          /\ for_conditions(monitor_id, after_execute(conditions, priceLoop.idx),
                            priceLoop.idx, priceLoop.current_price)
    /\ UNCHANGED <<twapVars, gridVars, lastOp, ocoVars, validatorCall,
                   bracketCall, is_monitoring>>

NextBracket ==
    \/ \E position_side \in {"LONG", "SHORT"} :
          create_bracket_stop_orders(position_side)
    \/ \E entry_order \in
             {[null |-> TRUE, status |-> "none", avgPrice |-> 0, executedQty |-> 0]}
             \cup [null : {FALSE},
                   status : {"NEW", "PARTIALLY_FILLED", "FILLED", "CANCELED"},
                   avgPrice : {0, 100, 101, 250}, executedQty : {1, 2}] :
          bracket_status_response(entry_order)
    \/ \E ok \in BOOLEAN : bracket_stop_loss_response(ok)
    \/ \E ok \in BOOLEAN : bracket_take_profit_response(ok)

SpecBracket == Init /\ [][NextBracket]_vars

NextManualStops ==
    \/ \E stop_conditions \in ConditionLists :
          monitor_price_for_manual_stops(FreshMonitorId, stop_conditions)
    \/ price_monitor_loop_while
    \/ price_monitor_loop_finally
    \/ \E ticker \in {None} \cup {<<p>> : p \in 1..3} :
          price_monitor_ticker_response(ticker)
    \/ \E ok \in BOOLEAN : execute_manual_stop_response(ok)

SpecManualStops == Init /\ [][NextManualStops]_vars

\* Callers that may register twice in one second: the id of a call is that
\* of the call before it, or a later one. Calls are made until a condition
\* has been executed MaxExecuted times.
NextSameSecond ==
    \/ \E monitor_id \in MonitorIds, stop_conditions \in ConditionLists :
          /\ \A m \in Monitors : m <= monitor_id
          /\ \A k \in DOMAIN executed : executed[k] < MaxExecuted
          /\ monitor_price_for_manual_stops(monitor_id, stop_conditions)
    \/ price_monitor_loop_while
    \/ price_monitor_loop_finally
    \/ \E ticker \in {None} \cup {<<p>> : p \in 1..3} :
          price_monitor_ticker_response(ticker)
    \/ \E ok \in BOOLEAN : execute_manual_stop_response(ok)

SpecSameSecond == Init /\ [][NextSameSecond]_vars

(***************************************************************************)
(* Claims.                                                                 *)
(***************************************************************************)

\* C1: once the status of an instance is STOPPED, COMPLETED or FAILED, no
\* later step of any operation changes it to a different value.
C1_TerminalIsFinal ==
    [][/\ \A id \in DOMAIN active_twaps :
             active_twaps[id].status \in TerminalStatus
                 => active_twaps'[id].status = active_twaps[id].status
       /\ \A id \in DOMAIN gridObj :
             gridObj[id].status \in TerminalStatus
                 => gridObj'[id].status = gridObj[id].status]_vars

\* C2: a TWAP stopped while RUNNING, before its last interval was
\* dispatched, is STOPPED when its execution task has finished.
C2_StopPersists ==
    \A id \in DOMAIN active_twaps :
        twapTask[id].stopped_early /\ twapTask[id].pc = "done"
            => active_twaps[id].status = "STOPPED"

\* C3: after stop_requested is set the execution task places at most one
\* further child order, and an interval whose stop check saw the flag set
\* sends no order.
C3_AtMostOneOrderAfterStop ==
    \A id \in DOMAIN active_twaps :
        /\ twapTask[id].after_stop <= 1
        /\ twapTask[id].pc \in {"ticker", "place"} => ~twapTask[id].saw_stop

\* a TWAP stopped while an order was in flight: that order was placed, the
\* loop was left before the remaining intervals
C3_Witness ==
    \E id \in DOMAIN active_twaps :
        /\ twapTask[id].after_stop = 1
        /\ twapTask[id].pc = "done"
        /\ twapTask[id].interval < active_twaps[id].intervals

\* C4: an operation the validator rejects registers no strategy instance
\* (and so sends no order): every registered TWAP has valid parameters.
C4_RejectedNeverStarts ==
    \A id \in DOMAIN active_twaps :
        validate_twap_parameters(active_twaps[id].total_quantity,
                                 active_twaps[id].duration_minutes,
                                 active_twaps[id].intervals)

\* C5: while a grid is STOPPED, no order it opened is still open on the
\* exchange, whatever the cancel calls answered.
C5_StoppedGridHasNoOpenOrder ==
    \A id \in DOMAIN gridObj :
        gridObj[id].status = "STOPPED"
            => \A o \in DOMAIN exOrders : o[1] = GridOwner(id) => exOrders[o] # "OPEN"

\* what holds when a stop_grid call returns: True is returned, the grid is
\* STOPPED with the reason of the call, cancel_order was called once for
\* every reference that was set when stop_grid was called (unless the
\* monitor saw that order filled, or a stop_grid running at the same time
\* had called cancel_order for it and cleared the reference)
StopGridReturned(obj, call, orders, cancelled) ==
    /\ call.ret = "True"
    /\ obj.status = "STOPPED"
    /\ obj.stop_reason = call.reason
    /\ obj.has_stop_time
    /\ \A r \in call.snapshot :
          \/ \E i \in 1..Len(call.cancels) : call.cancels[i] = r
          \/ orders[r] = "FILLED"
          \/ r \in cancelled /\ r \notin OpenRefs(obj)
    /\ \A i, j \in 1..Len(call.cancels) : i # j => call.cancels[i] # call.cancels[j]

\* C6: for any set of open references and any cancel outcomes, stop_grid
\* calls cancel_order once for every open buy and sell reference, ends with
\* the grid STOPPED and stop_reason = reason, and returns True.
C6_StopGridCancelsAll ==
    [][/\ \A id \in DOMAIN gridStop :
             gridStop'[id] # gridStop[id] /\ gridStop'[id].pc = "returned"
                 => StopGridReturned(gridObj'[id], gridStop'[id], exOrders', cancel_calls')
       /\ \A id \in DOMAIN gridMon :
             gridMon'[id].stop # gridMon[id].stop /\ gridMon'[id].stop.pc = "returned"
                 => StopGridReturned(gridObj'[id], gridMon'[id].stop, exOrders',
                                     cancel_calls')]_vars

\* a stop_grid call has returned after two cancel_order calls, one answered
\* with success and one with null
C6_Witness ==
    \E id \in DOMAIN gridStop :
        /\ gridStop[id].pc = "returned"
        /\ gridObj[id].status = "STOPPED"
        /\ Len(gridStop[id].cancels) = 2
        /\ exOrders[gridStop[id].cancels[1]] = "CANCELED"
        /\ exOrders[gridStop[id].cancels[2]] = "OPEN"

\* C7: stop_grid on a grid that is already STOPPED changes nothing: status,
\* stop_reason, stop_time and the order references stay as they are and no
\* gateway call is made.
C7_StopGridIdempotent ==
    [][\A id \in DOMAIN gridStop :
          /\ gridStop[id].pc \in {"idle", "returned"}
          /\ gridStop'[id] # gridStop[id]
          /\ gridObj[id].status = "STOPPED"
          => /\ gridObj'[id] = gridObj[id]
             /\ gridStop'[id].pc = "returned"
             /\ gridStop'[id].cancels = <<>>]_vars

\* C8: stop_twap sets the stop flag, makes no gateway call, leaves
\* executed_quantity, executed_intervals and the order list unchanged, and
\* on an instance that is already STOPPED changes no field at all.
C8_StopTwapFrame ==
    [][lastOp'.op = "stop_twap" /\ lastOp'.ret = "True"
          => LET id == lastOp'.id
             IN /\ active_twaps'[id].stop_requested
                /\ lastOp'.calls = <<>>
                /\ exOrders' = exOrders
                /\ active_twaps'[id].executed_quantity = active_twaps[id].executed_quantity
                /\ active_twaps'[id].executed_intervals = active_twaps[id].executed_intervals
                /\ active_twaps'[id].orders = active_twaps[id].orders
                /\ active_twaps[id].status = "STOPPED"
                      => active_twaps'[id] = active_twaps[id]]_vars

\* stop_twap was called on an instance that was already STOPPED and had
\* placed an order
C8_Witness ==
    /\ lastOp.op = "stop_twap"
    /\ lastOp.was = "STOPPED"
    /\ lastOp.ret = "True"
    /\ active_twaps[lastOp.id].orders # <<>>

\* C9: executed_intervals <= intervals, executed_quantity =
\* executed_intervals * quantity_per_interval <= total_quantity, and one
\* recorded child order per executed interval.
C9_TwapAccounting ==
    \A id \in DOMAIN active_twaps :
        LET cfg == active_twaps[id]
        IN /\ cfg.executed_intervals <= cfg.intervals
           /\ cfg.executed_quantity
                 = FMulSmall(cfg.executed_intervals, cfg.quantity_per_interval)
           /\ FLeq(cfg.executed_quantity, cfg.total_quantity)
           /\ Len(cfg.orders) = cfg.executed_intervals

\* C10: a TWAP whose every interval succeeded ends with executed_quantity
\* equal to total_quantity and remaining quantity 0.
C10_QuantitiesSumToTotal ==
    \A id \in DOMAIN active_twaps :
        twapTask[id].pc = "done"
        /\ active_twaps[id].executed_intervals = active_twaps[id].intervals
            => /\ active_twaps[id].executed_quantity = active_twaps[id].total_quantity
               /\ get_twap_status(id).remaining_quantity = FZero

\* C11: a null answer to the order of one interval leaves
\* executed_quantity, executed_intervals and the order list as they were,
\* does not make the instance FAILED, and the task goes on to the next
\* interval: a task that has finished without a stop request has made one
\* attempt per interval.
C11_NullIntervalSkipped ==
    [][\A id \in DOMAIN twapTask :
          /\ (/\ twapTask[id].pc = "place"
              /\ twapTask'[id].pc # "place"
              /\ exOrders' = exOrders)
                => /\ active_twaps'[id].executed_quantity = active_twaps[id].executed_quantity
                   /\ active_twaps'[id].executed_intervals = active_twaps[id].executed_intervals
                   /\ active_twaps'[id].orders = active_twaps[id].orders
                   /\ active_twaps'[id].status # "FAILED"
                   /\ twapTask'[id].attempts = twapTask[id].attempts + 1
                   /\ twapTask[id].interval < active_twaps[id].intervals - 1
                         => twapTask'[id].pc = "sleep"
          /\ twapTask'[id].pc = "done" /\ ~active_twaps'[id].stop_requested
                => twapTask'[id].attempts = active_twaps'[id].intervals]_vars

\* of the orders of two intervals one was answered with null and one was
\* placed, and the TWAP is COMPLETED
C11_Witness ==
    \E id \in DOMAIN active_twaps :
        /\ twapTask[id].pc = "done"
        /\ ~active_twaps[id].stop_requested
        /\ active_twaps[id].status = "COMPLETED"
        /\ twapTask[id].attempts = 2
        /\ active_twaps[id].executed_intervals = 1
        /\ DOMAIN exOrders = {<<<<"TWAP", id>>, 1>>}

\* C12: a started TWAP on which no stop is ever requested eventually is
\* COMPLETED, having made exactly `intervals` order-placement attempts.
C12_EventuallyCompleted ==
    \A id \in TwapIds :
        (id \in DOMAIN active_twaps)
            ~> (/\ id \in DOMAIN active_twaps
                /\ \/ active_twaps[id].stop_requested
                   \/ /\ active_twaps[id].status = "COMPLETED"
                      /\ twapTask[id].pc = "done"
                      /\ twapTask[id].attempts = active_twaps[id].intervals)

\* a TWAP of MaxIntervals intervals is COMPLETED and was never stopped
C12_Witness ==
    \E id \in DOMAIN active_twaps :
        /\ ~active_twaps[id].stop_requested
        /\ active_twaps[id].status = "COMPLETED"
        /\ active_twaps[id].intervals = MaxIntervals
        /\ twapTask[id].attempts = MaxIntervals

\* C13: the level prices of a grid started with L levels and upper > lower
\* are L values, level i (counted from 0) holding lower + i * increment with
\* increment = (upper - lower) / (L - 1); they increase strictly, start at
\* lower and end at upper.
C13_LevelsArithmetic ==
    \A id \in DOMAIN gridObj :
        LET obj == gridObj[id]
            L == obj.grid_levels
            increment == FDiv(FSub(obj.upper_price, obj.lower_price), FromInt(L - 1))
        IN FLess(obj.lower_price, obj.upper_price)
              => /\ Len(obj.levels) = L
                 /\ \A k \in 1..L :
                       obj.levels[k].price
                          = FAdd(obj.lower_price, FMul(FromInt(k - 1), increment))
                 /\ \A k \in 1..(L - 1) :
                       FLess(obj.levels[k].price, obj.levels[k + 1].price)
                 /\ obj.levels[1].price = obj.lower_price
                 /\ obj.levels[L].price = obj.upper_price

\* a grid of MaxStartLevels levels from 1 to 3, whose increment 2/3 is not a
\* binary fraction
C13_Witness ==
    \E id \in DOMAIN gridObj :
        /\ gridObj[id].grid_levels = MaxStartLevels
        /\ gridObj[id].lower_price = FromInt(1)
        /\ gridObj[id].upper_price = FromInt(3)

\* C14: with a current price obtained, initial placement attempts exactly:
\* NEUTRAL, a BUY at every level below the price and a SELL at every level
\* above it (nothing at a level equal to it); LONG, a BUY at every level at
\* or below the price; SHORT, a SELL at every level at or above it.
C14_InitialPlacement ==
    \A id \in DOMAIN gridStart :
        LET st == gridStart[id]
            obj == gridObj[id]
            below(k) == FLess(obj.levels[k].price, st.current_price)
            above(k) == FLess(st.current_price, obj.levels[k].price)
            Buys == {k \in 1..Len(obj.levels) :
                        \/ obj.grid_type = "NEUTRAL" /\ below(k)
                        \/ obj.grid_type = "LONG" /\ ~above(k)}
            Sells == {k \in 1..Len(obj.levels) :
                        \/ obj.grid_type = "NEUTRAL" /\ above(k)
                        \/ obj.grid_type = "SHORT" /\ ~below(k)}
        IN st.pc = "done" /\ st.has_ticker
              => /\ {st.attempted[i] : i \in 1..Len(st.attempted)}
                       = {<<k, "BUY">> : k \in Buys} \cup {<<k, "SELL">> : k \in Sells}
                 /\ Len(st.attempted) = Cardinality(Buys) + Cardinality(Sells)
                 /\ st.total_orders_attempted = Len(st.attempted)

\* a NEUTRAL grid with a level below, a level at and a level above the
\* current price: a BUY and a SELL were attempted, nothing at the middle level
C14_Witness ==
    \E id \in DOMAIN gridStart :
        /\ gridStart[id].pc = "done"
        /\ gridObj[id].grid_type = "NEUTRAL"
        /\ gridObj[id].grid_levels = 3
        /\ gridObj[id].levels[2].price = gridStart[id].current_price
        /\ gridStart[id].attempted = << <<1, "BUY">>, <<3, "SELL">> >>

\* C15: start_grid returns the id, with the instance registered as ACTIVE and
\* its monitor started, exactly when at least one initial order was attempted
\* and at least 70% of the attempted orders were placed; otherwise it returns
\* None, the registry has no entry for the instance and no monitor is started.
C15_StartIffSeventyPercent ==
    \A id \in DOMAIN gridStart :
        LET st == gridStart[id]
            enough == /\ st.total_orders_attempted > 0
                      /\ 10 * st.successful_orders >= 7 * st.total_orders_attempted
        IN st.pc = "done"
              => /\ st.ret = "id" <=> enough
                 /\ st.ret = "None" <=> ~enough
                 /\ enough => /\ id \in active_grids
                               /\ gridObj[id].status = "ACTIVE"
                               /\ id \in monitoring_threads
                               /\ id \in DOMAIN gridMon
                 /\ ~enough => /\ id \notin active_grids
                                /\ id \notin monitoring_threads
                                /\ id \notin DOMAIN gridMon

\* a grid was started although one of its four initial orders was refused
C15_Witness ==
    \E id \in DOMAIN gridStart :
        /\ gridStart[id].pc = "done"
        /\ gridStart[id].ret = "id"
        /\ gridStart[id].total_orders_attempted = 4
        /\ gridStart[id].successful_orders = 3
        /\ id \in active_grids

\* C16: when start_grid has failed, none of the orders placed during the
\* attempt is still open on the exchange.
C16_FailedStartLeavesNoOrder ==
    \A id \in DOMAIN gridStart :
        gridStart[id].pc = "done" /\ gridStart[id].ret = "None"
            => \A o \in DOMAIN exOrders : o[1] = GridOwner(id) => exOrders[o] # "OPEN"

\* the order references of every level but those named are the same before
\* and after the step
RefsKept(obj, obj2, buys, sells) ==
    /\ Len(obj2.levels) = Len(obj.levels)
    /\ \A j \in 1..Len(obj.levels) :
          /\ j \notin buys => obj2.levels[j].buy_order_id = obj.levels[j].buy_order_id
          /\ j \notin sells => obj2.levels[j].sell_order_id = obj.levels[j].sell_order_id

\* the order ids the exchange has accepted in the step
NewOrders == DOMAIN exOrders' \ DOMAIN exOrders

\* C17: when the monitor observes a buy fill at level i it marks the level
\* filled, adds 1 to trades_executed, sends a SELL of level i's quantity at
\* level i+1's price exactly when level i+1 exists and has no sell
\* reference, stores the reference of that order when it is placed, clears
\* the buy reference of level i, and changes no other reference.
C17_BuyFill ==
    [][\A id \in DOMAIN gridMon :
          LET obj == gridObj[id]
              obj2 == gridObj'[id]
              k == gridMon[id].level
              sells == k + 1 <= Len(obj.levels) /\ obj.levels[k + 1].sell_order_id = None
          IN /\ (/\ gridMon[id].pc = "buy_status"
                 /\ id \in active_grids
                 /\ exOrders'[gridMon[id].arg] = "FILLED"
                 /\ \E fill \in BOOLEAN : check_level_orders(id, TRUE, fill))
                   => /\ obj2.levels[k].filled
                      /\ obj2.trades_executed = obj.trades_executed + 1
                      /\ obj2.total_profit = obj.total_profit
                      /\ NewOrders = {}
                      /\ IF sells
                         THEN /\ gridMon'[id].pc = "buy_place"
                              /\ gridMon'[id].level = k
                              /\ gridMon'[id].arg = [side |-> "SELL",
                                                     quantity |-> obj.levels[k].quantity,
                                                     price |-> obj.levels[k + 1].price]
                              /\ RefsKept(obj, obj2, {}, {})
                         ELSE /\ gridMon'[id].pc # "buy_place"
                              /\ obj2.levels[k].buy_order_id = None
                              /\ RefsKept(obj, obj2, {k}, {})
             /\ (gridMon[id].pc = "buy_place" /\ gridMon'[id] # gridMon[id])
                   => /\ obj2.levels[k].buy_order_id = None
                      /\ obj2.levels[k + 1].sell_order_id
                            = IF NewOrders = {} THEN obj.levels[k + 1].sell_order_id
                              ELSE CHOOSE o \in NewOrders : TRUE
                      /\ \A o \in NewOrders : exOrders'[o] = "OPEN"
                      /\ obj2.trades_executed = obj.trades_executed
                      /\ RefsKept(obj, obj2, {k}, {k + 1})]_vars

\* the buy of level 1 was seen filled and the SELL sent for level 2 is open
C17_Witness ==
    \E id \in DOMAIN gridMon :
        LET obj == gridObj[id]
        IN /\ Len(obj.levels) = 3
           /\ obj.levels[1].filled
           /\ obj.trades_executed = 1
           /\ obj.levels[1].buy_order_id = None
           /\ obj.levels[2].sell_order_id # None
           /\ exOrders[obj.levels[2].sell_order_id] = "OPEN"
           /\ exOrders[<<GridOwner(id), 1>>] = "FILLED"

\* C18: when the monitor observes a sell fill at level i it adds
\* price_increment * quantity to total_profit and 1 to trades_executed, sends
\* a BUY at level i-1's price exactly when level i-1 exists and has no buy
\* reference, stores the reference of that order when it is placed, clears
\* the sell reference of level i, and changes no other reference.
C18_SellFill ==
    [][\A id \in DOMAIN gridMon :
          LET obj == gridObj[id]
              obj2 == gridObj'[id]
              k == gridMon[id].level
              buys == k - 1 >= 1 /\ obj.levels[k - 1].buy_order_id = None
          IN /\ (/\ gridMon[id].pc = "sell_status"
                 /\ id \in active_grids
                 /\ exOrders'[gridMon[id].arg] = "FILLED"
                 /\ \E fill \in BOOLEAN : check_level_orders(id, TRUE, fill))
                   => /\ obj2.levels[k].filled
                      /\ obj2.trades_executed = obj.trades_executed + 1
                      /\ obj2.total_profit
                            = FAdd(obj.total_profit,
                                   FMul(obj.price_increment, obj.levels[k].quantity))
                      /\ NewOrders = {}
                      /\ IF buys
                         THEN /\ gridMon'[id].pc = "sell_place"
                              /\ gridMon'[id].level = k
                              /\ gridMon'[id].arg = [side |-> "BUY",
                                                     quantity |-> obj.levels[k].quantity,
                                                     price |-> obj.levels[k - 1].price]
                              /\ RefsKept(obj, obj2, {}, {})
                         ELSE /\ gridMon'[id].pc # "sell_place"
                              /\ obj2.levels[k].sell_order_id = None
                              /\ RefsKept(obj, obj2, {}, {k})
             /\ (gridMon[id].pc = "sell_place" /\ gridMon'[id] # gridMon[id])
                   => /\ obj2.levels[k].sell_order_id = None
                      /\ obj2.levels[k - 1].buy_order_id
                            = IF NewOrders = {} THEN obj.levels[k - 1].buy_order_id
                              ELSE CHOOSE o \in NewOrders : TRUE
                      /\ \A o \in NewOrders : exOrders'[o] = "OPEN"
                      /\ obj2.trades_executed = obj.trades_executed
                      /\ obj2.total_profit = obj.total_profit
                      /\ RefsKept(obj, obj2, {k - 1}, {k})]_vars

\* the sell of level 3 was seen filled, its profit is booked and the BUY
\* sent for level 2 is open
C18_Witness ==
    \E id \in DOMAIN gridMon :
        LET obj == gridObj[id]
        IN /\ Len(obj.levels) = 3
           /\ obj.levels[3].filled
           /\ obj.trades_executed = 1
           /\ obj.total_profit = FromInt(1)
           /\ obj.levels[3].sell_order_id = None
           /\ obj.levels[2].buy_order_id # None
           /\ exOrders[obj.levels[2].buy_order_id] = "OPEN"

\* the realized profit, as a percentage of total_quantity * lower_price,
\* meets the configured take-profit percentage
ProfitMeetsTarget(obj) ==
    FLeq(FromInt(obj.take_profit_percentage),
         FMul(FDiv(obj.total_profit, FMul(obj.total_quantity, obj.lower_price)),
              FromInt(100)))

\* C19: a monitor of a grid with a take-profit percentage does not end a
\* pass (go to sleep) with the target met unless it has stopped the grid;
\* when its stop_grid call returns the grid is STOPPED with stop_reason
\* TAKE_PROFIT; the monitor stops a grid only when the target is met, and
\* never when no take-profit percentage is configured.
C19_TakeProfitStops ==
    [][\A id \in DOMAIN gridMon :
          LET obj2 == gridObj'[id]
              mon2 == gridMon'[id]
          IN /\ (/\ mon2.pc = "sleep"
                 /\ mon2 # gridMon[id]
                 /\ mon2.stop.pc # "returned"
                 /\ obj2.take_profit_percentage # 0)
                   => ~ProfitMeetsTarget(obj2)
             /\ (mon2.stop.pc = "returned" /\ gridMon[id].stop.pc # "returned")
                   => /\ mon2.stop.reason = "TAKE_PROFIT"
                      /\ mon2.stop.ret = "True"
                      /\ obj2.status = "STOPPED"
                      /\ obj2.stop_reason = "TAKE_PROFIT"
             /\ (mon2.stop.pc # "idle" /\ gridMon[id].stop.pc = "idle")
                   => /\ obj2.take_profit_percentage # 0
                      /\ ProfitMeetsTarget(obj2)
                      /\ obj2.stop_requested
             /\ obj2.take_profit_percentage = 0 => mon2.stop.pc = "idle"]_vars

\* the monitor has stopped a grid whose profit met the target, after a
\* cancel_order call for the order that was still open
C19_Witness ==
    \E id \in DOMAIN gridMon :
        /\ gridMon[id].stop.pc = "returned"
        /\ Len(gridMon[id].stop.cancels) = 1
        /\ gridObj[id].status = "STOPPED"
        /\ gridObj[id].stop_reason = "TAKE_PROFIT"
        /\ gridObj[id].trades_executed = 1

\* the registry entries the step removes
RemovedGrids == active_grids \ active_grids'

RemovedTwaps == DOMAIN active_twaps \ DOMAIN active_twaps'

\* the step removes entries in a cleanup pass only, each of an instance
\* whose status is terminal and whose retention window has elapsed
RemovedByCleanup ==
    /\ RemovedGrids # {} => cleanup_stopped_grids
    /\ \A id \in RemovedGrids :
          gridObj[id].status \in TerminalStatus /\ gridObj[id].stop_time_old
    /\ RemovedTwaps # {} => cleanup_completed_twaps
    /\ \A id \in RemovedTwaps :
          active_twaps[id].status \in TerminalStatus /\ active_twaps[id].end_time_old

\* the step is the return of a start_grid call whose initial placement
\* failed, and removes the entry of that grid and no other
RemovedByFailedStart ==
    /\ RemovedTwaps = {}
    /\ \A id \in RemovedGrids :
          /\ gridStart[id].pc # "done"
          /\ gridStart'[id].pc = "done"
          /\ gridStart'[id].ret = "None"

\* C20 as stated: a registry entry is removed only by a cleanup pass, and
\* only when the instance is terminal and its retention window has elapsed.
C20_RemovedOnlyByCleanup ==
    [][RemovedByCleanup]_vars

\* C20: a registry entry is removed only by a cleanup pass, the instance
\* being terminal and its retention window elapsed, or by start_grid itself
\* when the initial placement of that grid has failed.
C20_RemovedByCleanupOrFailedStart ==
    [][RemovedByCleanup \/ RemovedByFailedStart]_vars

\* a grid that was started and stopped has been removed by a cleanup pass
C20_Witness ==
    \E id \in DOMAIN gridStart :
        /\ gridStart[id].ret = "id"
        /\ id \notin active_grids
        /\ gridObj[id].status = "STOPPED"
        /\ gridObj[id].stop_time_old

\* the _monitor_grid thread is inside its while loop
MonitorInLoop(id) == gridMon[id].pc \notin {"start", "done"}

\* the _execute_twap thread has not left its loop
ExecutionInLoop(id) == twapTask[id].pc # "done"

\* C21: no grid and no TWAP is missing from its registry while its monitor
\* thread or its execution thread is still inside its loop.
C21_NoRemovalWhileRunning ==
    /\ \A id \in DOMAIN gridMon : MonitorInLoop(id) => id \in active_grids
    /\ \A id \in DOMAIN twapTask : ExecutionInLoop(id) => id \in DOMAIN active_twaps

\* C22: place_order returns None whenever a leg could not be placed, and a
\* result holding both order references and the group id only when both
\* legs were placed.
C22_FailureIffALegFailed ==
    ocoPlace.pc = "returned" =>
        /\ ocoPlace.ret.null <=>
              (ocoPlace.limit_response = None \/ ocoPlace.stop_response = None)
        /\ ~ocoPlace.ret.null =>
              /\ ocoPlace.ret.limit_order \in DOMAIN exOrders
              /\ ocoPlace.ret.stop_order \in DOMAIN exOrders
              /\ ocoPlace.ret.orderListId = OcoListId

\* C23: the stop order, of the opposite side and the same quantity, is
\* requested only after the limit order was placed; when the limit order
\* fails nothing more is requested; when the stop order fails no cancel is
\* requested and the limit order is still on the exchange as it was placed.
C23_ProtectiveAfterPrimary ==
    LET call == ocoPlace
    IN /\ call.pc # "idle" =>
             /\ Len(call.requests) >= 1
             /\ call.requests[1] = LimitParams(call.side, call.quantity, call.price)
       /\ Len(call.requests) <= 2
       /\ \A i \in 1..Len(call.requests) : call.requests[i].method = "POST"
       /\ Len(call.requests) = 2 <=>
             (call.pc \in {"stop", "returned"} /\ call.limit_response # None)
       /\ Len(call.requests) = 2 =>
             /\ call.requests[2].type = "STOP_MARKET"
             /\ call.requests[2].side # call.side
             /\ call.requests[2].side \in {"BUY", "SELL"}
             /\ call.requests[2].quantity = call.quantity
       /\ (call.pc = "returned" /\ call.limit_response = None) =>
             /\ Len(call.requests) = 1
             /\ DOMAIN exOrders = {}
       /\ (call.pc = "returned" /\ call.limit_response # None
                                /\ call.stop_response = None) =>
             /\ DOMAIN exOrders = {call.limit_response}
             /\ exOrders[call.limit_response] \in {"OPEN", "FILLED"}

\* the limit order was placed, the stop order was refused, and the limit
\* order is open
C23_Witness ==
    /\ ocoPlace.pc = "returned"
    /\ ocoPlace.limit_response # None
    /\ ocoPlace.stop_response = None
    /\ exOrders[ocoPlace.limit_response] = "OPEN"

\* C24: after cancel_oco_order has succeeded for the group id place_order
\* returned, neither leg of the group is open on the exchange.
C24_CancelledGroupHasNoOpenLeg ==
    (/\ ocoCancel.pc = "returned"
     /\ ocoCancel.ret # "None"
     /\ ~ocoCancel.group.null
     /\ ocoCancel.order_list_id = ocoCancel.group.orderListId) =>
        \A o \in {ocoCancel.group.limit_order, ocoCancel.group.stop_order} :
            o \in DOMAIN exOrders => exOrders[o] # "OPEN"

\* C25: for inputs that pass the other validations, validate_oco_order
\* accepts a SELL OCO exactly when stop price < limit price and stop-limit
\* price <= stop price, and a BUY OCO exactly when stop price > limit price
\* and stop-limit price >= stop price.
C25_OcoOrdering ==
    validatorCall.op = "validate_oco_order" =>
        LET symbol == validatorCall.args[1]
            quantity == validatorCall.args[2]
            price == validatorCall.args[3]
            stop_price == validatorCall.args[4]
            stop_limit_price == validatorCall.args[5]
            side == validatorCall.args[6]
        IN (/\ validate_quantity(symbol, quantity)
            /\ validate_price(symbol, price)
            /\ validate_price(symbol, stop_price)
            /\ validate_price(symbol, stop_limit_price)
            /\ validate_side(side)) =>
               (validatorCall.ret <=>
                  IF Strip(Upper(side)) = Str("SELL")
                  THEN stop_price < price /\ stop_limit_price <= stop_price
                  ELSE stop_price > price /\ stop_limit_price >= stop_price)

C27_BracketOnlyAfterFilled ==
    /\ (bracketCall.requests # <<>>
        \/ \E o \in DOMAIN exOrders : o[1] = BracketOwner)
           => bracketCall.entry_order.status = "FILLED"
    /\ (bracketCall.pc = "returned" /\ bracketCall.entry_order.status # "FILLED")
           => bracketCall.ret = <<>>

C27_Witness ==
    /\ bracketCall.pc = "returned"
    /\ ~bracketCall.entry_order.null
    /\ bracketCall.entry_order.status = "PARTIALLY_FILLED"
    /\ bracketCall.requests = <<>>
    /\ bracketCall.ret = <<>>

\* C28: _execute_manual_stop is called at most once on a registered
\* condition; once the call made for a condition has returned the condition
\* is in no list of the registry, a condition leaves its list in no other
\* way, and no monitor of the registry is left with an empty list
C28_ManualStopOnce ==
    LET InList(k) ==
            /\ k[1] \in DOMAIN monitoring_orders
            /\ \E x \in DOMAIN monitoring_orders[k[1]].conditions :
                  monitoring_orders[k[1]].conditions[x].name = k[2]
        Executing(k) ==
            /\ priceLoop.pc = "execute"
            /\ priceLoop.items[priceLoop.pos] = k[1]
            /\ monitoring_orders[k[1]].conditions[priceLoop.idx].name = k[2]
    IN /\ \A k \in DOMAIN executed :
            /\ executed[k] <= 1
            /\ (executed[k] = 1 /\ ~Executing(k)) => ~InList(k)
            /\ ~InList(k) => executed[k] = 1
       /\ \A m \in DOMAIN monitoring_orders :
            monitoring_orders[m].conditions # <<>>

C28_Witness ==
    /\ 1 \notin DOMAIN monitoring_orders
    /\ Cardinality({k \in DOMAIN executed : k[1] = 1 /\ executed[k] = 1}) = 2
    /\ 2 \in DOMAIN monitoring_orders
    /\ priceLoop.pc = "sleep"

\* C29: a start_twap call that returns an id, and a start_grid call, gets an
\* id no earlier call on the handler got, and leaves every entry of the
\* registry as it was
C29_StartsGetFreshIds ==
    [][/\ (lastOp' # lastOp /\ lastOp'.op = "start_twap" /\ lastOp'.ret = "id")
            => /\ lastOp'.id \notin DOMAIN twapTask
               /\ lastOp'.id \notin DOMAIN active_twaps
               /\ \A t \in DOMAIN active_twaps : active_twaps'[t] = active_twaps[t]
       /\ \A g \in DOMAIN gridStart' :
            (/\ gridStart'[g].pc = "ticker"
             /\ g \in DOMAIN gridStart => gridStart[g].pc # "ticker")
            => /\ g \notin DOMAIN gridStart
               /\ g \notin active_grids
               /\ \A h \in DOMAIN gridObj : gridObj'[h] = gridObj[h]]_vars

C29_Witness ==
    /\ Cardinality({g \in DOMAIN gridStart : gridStart[g].ret = "id"}) = 2
    /\ Cardinality(active_grids) = 2

\* C30: a stop_twap or stop_grid call with an id the registry does not hold
\* returns False, issues no gateway call and changes neither the exchange
\* nor the state of a handler; a stop_grid call goes on to cancel orders
\* only for a registered id; get_twap_status and get_grid_status answer None
\* for every id that is not registered
C30_UnknownIdRefused ==
    /\ [][/\ (/\ lastOp' # lastOp
              /\ \/ lastOp'.op = "stop_twap" /\ lastOp'.id \notin DOMAIN active_twaps
                 \/ lastOp'.op = "stop_grid" /\ lastOp'.id \notin active_grids)
             => /\ lastOp'.ret = "False"
                /\ lastOp'.calls = <<>>
                /\ UNCHANGED <<exOrders, twapVars, gridVars>>
          /\ \A id \in DOMAIN gridStop :
                (gridStop'[id] # gridStop[id] /\ gridStop[id].pc \in {"idle", "returned"})
                   => id \in active_grids]_vars
    /\ [](\A id \in 1..(MaxStarts + 1) :
            /\ id \notin DOMAIN active_twaps => get_twap_status(id) = None
            /\ id \notin active_grids => get_grid_status(id) = None)

C30_Witness ==
    /\ lastOp.op = "stop_grid"
    /\ lastOp.ret = "False"
    /\ lastOp.id \in DOMAIN gridStart
    /\ lastOp.id \notin active_grids
    /\ active_grids # {}

\* C31: a step of the monitor in which get_order_status answers None leaves
\* the level it asked for, trades_executed and total_profit as they were,
\* goes on to the next order reference of the pass when there is one, and
\* leaves the status of the grid as it was unless the take-profit check at
\* the end of the pass stops the grid
C31_NullStatusSkipped ==
    [][\A id \in DOMAIN gridMon :
          (\E fill \in BOOLEAN : check_level_orders(id, FALSE, fill))
          => LET obj == gridObj[id]
                 mon == gridMon[id]
                 n == IF mon.pc = "buy_status"
                      THEN RefScan(obj.levels, mon.level, "sell")
                      ELSE RefScan(obj.levels, mon.level + 1, "buy")
             IN /\ gridObj'[id].levels[mon.level] = obj.levels[mon.level]
                /\ gridObj'[id].trades_executed = obj.trades_executed
                /\ gridObj'[id].total_profit = obj.total_profit
                /\ n.level # 0
                     => /\ gridMon'[id].pc \in {"buy_status", "sell_status"}
                        /\ gridMon'[id].level = n.level
                        /\ gridMon'[id].arg = n.ref
                        /\ gridObj'[id] = obj
                /\ gridObj'[id].status = obj.status \/ TakeProfitReached(obj)]_vars

C31_Witness ==
    \E id \in DOMAIN gridMon :
        /\ gridMon[id].pc = "sleep"
        /\ gridObj[id].status = "ACTIVE"
        /\ \E k \in DOMAIN gridObj[id].levels :
              /\ gridObj[id].levels[k].buy_order_id \in DOMAIN exOrders
              /\ exOrders[gridObj[id].levels[k].buy_order_id] = "FILLED"
              /\ ~gridObj[id].levels[k].filled

\* C32: a grid whose status is STOPPED has no buy and no sell reference set
C32_StoppedGridHasNoRefs ==
    \A id \in DOMAIN gridObj :
        gridObj[id].status = "STOPPED" => OpenRefs(gridObj[id]) = {}

\* C33: once a stop has been requested on a grid, its monitor thread
\* eventually has left its loop and ended, with its entry removed from
\* monitoring_threads
C33_MonitorEndsAfterStop ==
    \A id \in 1..MaxStarts :
        (id \in DOMAIN gridObj /\ gridObj[id].stop_requested)
            ~> (/\ id \in DOMAIN gridMon
                /\ gridMon[id].pc = "done"
                /\ id \notin monitoring_threads)

C33_Witness ==
    \E id \in DOMAIN gridMon :
        /\ gridStop[id].pc = "returned"
        /\ gridStop[id].cancels # <<>>
        /\ gridObj[id].trades_executed >= 1
        /\ gridMon[id].pc = "done"
        /\ id \notin monitoring_threads


\* the orders of grid id that are open on the exchange
GridOpenOrders(id) ==
    {o \in DOMAIN exOrders : o[1] = GridOwner(id) /\ exOrders[o] = "OPEN"}

\* the set references of a grid, as pairs of level and side
SetRefs(obj) ==
    {<<k, "BUY">> : k \in {j \in 1..Len(obj.levels) : obj.levels[j].buy_order_id # None}}
        \cup {<<k, "SELL">> : k \in {j \in 1..Len(obj.levels) : obj.levels[j].sell_order_id # None}}

\* the sum of the quantities of the levels from k on, once for each set reference
RECURSIVE RefQuantity(_, _)
RefQuantity(obj, k) ==
    IF k > Len(obj.levels) THEN FZero
    ELSE LET buy == IF obj.levels[k].buy_order_id # None THEN obj.levels[k].quantity
                    ELSE FZero
             sell == IF obj.levels[k].sell_order_id # None THEN obj.levels[k].quantity
                     ELSE FZero
         IN FAdd(FAdd(buy, sell), RefQuantity(obj, k + 1))

C35_LegsCloseThePosition ==
    \A i \in DOMAIN bracketCall.requests :
        /\ bracketCall.position_side = "LONG" => bracketCall.requests[i].side = "SELL"
        /\ bracketCall.position_side = "SHORT" => bracketCall.requests[i].side = "BUY"

\* C36: while a monitor is registered a price monitor loop is running, also
\* for a monitor registered while the previous loop was ending
C36_RegisteredIsPolled ==
    DOMAIN monitoring_orders # {} => priceLoop.pc # "none"

\* C37: when the loop, having got a ticker price for a monitor, leaves the
\* for loop over the monitor's conditions, no condition left in the
\* monitor's list is triggered at that price
C37_TriggeredAllExecuted ==
    [][((\E p \in 1..3 : price_monitor_ticker_response(<<p>>))
            \/ (\E ok \in BOOLEAN : execute_manual_stop_response(ok)))
         /\ priceLoop'.pc # "execute"
         => LET monitor_id == priceLoop.items[priceLoop.pos]
            IN monitor_id \in DOMAIN monitoring_orders'
                  => \A x \in DOMAIN monitoring_orders'[monitor_id].conditions :
                        ~check_stop_condition(priceLoop'.current_price,
                                              monitoring_orders'[monitor_id].conditions[x])]_vars

\* C38: a call of monitor_price_for_manual_stops leaves every monitor that
\* is registered with conditions in the registry, with the conditions it had
C38_RegistrationKeepsMonitors ==
    [][(\E monitor_id \in MonitorIds, stop_conditions \in ConditionLists :
            monitor_price_for_manual_stops(monitor_id, stop_conditions))
         => \A m \in DOMAIN monitoring_orders :
               monitoring_orders[m].conditions # <<>>
                  => /\ m \in DOMAIN monitoring_orders'
                     /\ monitoring_orders'[m].conditions
                            = monitoring_orders[m].conditions]_vars

\* C39: get_all_active_twaps and get_all_active_grids list the registered
\* instances whose status is not STOPPED, COMPLETED or FAILED, and no others
C39_ActiveListings ==
    /\ DOMAIN get_all_active_twaps =
          {twap_id \in DOMAIN active_twaps :
              active_twaps[twap_id].status \notin {"STOPPED", "COMPLETED", "FAILED"}}
    /\ DOMAIN get_all_active_grids =
          {grid_id \in active_grids :
              gridObj[grid_id].status \notin {"STOPPED", "COMPLETED", "FAILED"}}
====
